---- MODULE Spec2Model ----
(***************************************************************************)
(* Verification model of the control-and-evaluation core of ADM-World:     *)
(* the PID controller, the control subsystems and their aggregators, the   *)
(* default control interface and the heading/altitude evaluation harness.  *)
(*                                                                         *)
(* Python floats are modelled as exact rationals <<n, d>> with d > 0 in    *)
(* lowest terms; a heading that the simulator reports is the aircraft's    *)
(* unwrapped heading reduced to [0, 360).                                  *)
(***************************************************************************)
EXTENDS Integers, Sequences, FiniteSets, TLC

\* ------------------------------------------------------------------------
\* Bounds of the model
\* ------------------------------------------------------------------------
MaxCalls == 4
MaxSets == 2
MaxTicks == 2
MaxActions == 4
MaxAggCalls == 3
MaxMoveTicks == 2

\* ------------------------------------------------------------------------
\* Exact arithmetic
\* ------------------------------------------------------------------------
Abs(x) == IF x < 0 THEN -x ELSE x

RECURSIVE GCD(_, _)
GCD(a, b) == IF b = 0 THEN a ELSE GCD(b, a % b)

Rat(n, d) ==
    LET s == IF d < 0 THEN -1 ELSE 1
        g == GCD(Abs(n), Abs(d))
    IN  IF n = 0 THEN <<0, 1>> ELSE <<(s * n) \div g, (s * d) \div g>>

Int2R(n) == <<n, 1>>
RAdd(a, b) == Rat(a[1] * b[2] + b[1] * a[2], a[2] * b[2])
RSub(a, b) == Rat(a[1] * b[2] - b[1] * a[2], a[2] * b[2])
RMul(a, b) == Rat(a[1] * b[1], a[2] * b[2])
RDiv(a, b) == Rat(a[1] * b[2], a[2] * b[1])
RNeg(a) == <<-a[1], a[2]>>
RLess(a, b) == a[1] * b[2] < b[1] * a[2]
RLeq(a, b) == a[1] * b[2] <= b[1] * a[2]
RAbs(a) == <<Abs(a[1]), a[2]>>
RMax(a, b) == IF RLess(a, b) THEN b ELSE a
RMin(a, b) == IF RLess(b, a) THEN b ELSE a
RZero == <<0, 1>>
ROne == <<1, 1>>
\* Python's x % m for a positive integer m
RMod(a, m) == Rat(a[1] % (m * a[2]), a[2])

\* The floats that are not rationals: nan, inf and -inf.  Every ordered
\* comparison with nan is False.
NaN == <<0, 0>>
PosInf == <<1, 0>>
NegInf == <<-1, 0>>
IsNaN(x) == x = NaN
FLeq(a, b) ==
    /\ ~IsNaN(a) /\ ~IsNaN(b)
    /\ IF a[2] = 0 \/ b[2] = 0 THEN a = NegInf \/ b = PosInf ELSE RLeq(a, b)
FLess(a, b) == FLeq(a, b) /\ ~FLeq(b, a)

\* ------------------------------------------------------------------------
\* State
\* ------------------------------------------------------------------------
VARIABLES
    pid,        \* the PIDController under test: gains, _last_error, _integral
    fresh,      \* a controller constructed with pid's gains at the last reset()
    pidOut,     \* what the last operation on pid returned
    freshOut,   \* what the same compute returned on fresh
    pidCall,    \* the last operation on pid and its arguments
    nCalls,     \* operations performed on pid
    preReset    \* pid's state just before the last reset()

pidVars == <<pid, fresh, pidOut, freshOut, pidCall, nCalls, preReset>>

VARIABLES
    current_instruction,  \* ControlInterfaceDefault.current_instruction
    instructions,         \* ControlInterfaceDefault.instructions
    evals,                \* ControlInterfaceDefault.evals
    cur_eval,             \* ControlInterfaceDefault.cur_eval
    cur_alt_change,       \* ControlInterfaceDefault.cur_alt_change
    cur_hdg_change,       \* ControlInterfaceDefault.cur_hdg_change
    instr_steps,          \* ControlInterfaceDefault.instr_steps
    steps_total,          \* ControlInterfaceDefault.steps_total
    max_man_steps,        \* ControlInterfaceDefault.max_man_steps
    ha_control_subsystem, \* the interface's FGAPControlSubsystem
    sim,                  \* the properties the simulator reports
    ciResult,             \* the last call on the interface and its outcome
    nSets                 \* set_instruction calls made

ciVars == <<current_instruction, instructions, evals, cur_eval, cur_alt_change,
            cur_hdg_change, instr_steps, steps_total, max_man_steps,
            ha_control_subsystem, sim, ciResult, nSets>>

VARIABLES
    agg,        \* one control-subsystem aggregator instance
    aggSim,     \* the simulator properties the aggregator reads
    aggResult,  \* the last call on the aggregator and its outcome
    aggCalls,   \* action() calls made on the instance since construction
    aggReturns, \* action() calls that returned since construction or reset()
    aggResets   \* reset() calls made on the instance

aggVars == <<agg, aggSim, aggResult, aggCalls, aggReturns, aggResets>>

VARIABLES
    trial,      \* the locals of HAFlightControlEval.run_single_eval
    haSim,      \* the trial's engine session: aircraft state, open or closed
    harness,    \* the batch collections of the HAFlightControlEval instance
    ticksRun,   \* iterations of the Running loop executed so far
    batchResult \* the last call on the HAFlightControlEval instance and what it returned

haVars == <<trial, haSim, harness, ticksRun, batchResult>>

VARIABLES
    iface,      \* the SimulationInterface instance and its engine session
    stepResult  \* the last call of SimulationInterface.step and its outcome

stepVars == <<iface, stepResult>>

VARIABLES
    throttleCalls \* the calls of cessna_rpm_to_throttle_cmd made so far

rpmVars == <<throttleCalls>>

VARIABLES
    heap,       \* the engine sessions (Simulation objects) that exist
    original,   \* a SimulationInterface that was constructed and initialized
    copied,     \* the SimulationInterface copy.deepcopy(original) returned
    copyOp      \* the last operation on either interface

copyVars == <<heap, original, copied, copyOp>>

VARIABLES
    adm,        \* the OpenRouterAgent of an InstructionFollowing scenario
    scenario    \* the scenario's run loop and the instructions it installed

agentVars == <<adm, scenario>>

VARIABLES
    bt          \* a batch_test call: its loop position and the subsystem objects

btVars == <<bt>>

vars == <<pidVars, ciVars, aggVars, haVars, stepVars, rpmVars, copyVars, agentVars, btVars>>

\* ------------------------------------------------------------------------
\* PIDController (pid_controller.py)
\* ------------------------------------------------------------------------
\* None, as a controller and as a returned number
NoCtl == [none |-> TRUE]
NoOut == <<>>

PIDController(kp, ki, kd) ==
    [kp |-> kp, ki |-> ki, kd |-> kd, last_error |-> RZero, integral |-> RZero]

\* a reset that forgets to clear the accumulated integral
PIDResetKeepsIntegral(p) == [p EXCEPT !.last_error = RZero]

PIDReset(p) == [p EXCEPT !.last_error = RZero, !.integral = RZero]

\* a compute that accumulates the error without weighting it by dt
PIDComputeIntegralNoDt(p, measurement, setpoint, dt) ==
    LET error == RSub(setpoint, measurement)
        integral == RAdd(p.integral, error)
        derivative == IF dt # RZero THEN RDiv(RSub(error, p.last_error), dt)
                      ELSE RZero
    IN  [ctl |-> [p EXCEPT !.integral = integral],
         out |-> RAdd(RAdd(RMul(p.kp, error), RMul(p.ki, integral)),
                      RMul(p.kd, derivative))]

\* compute: the controller after the call, and the value returned
PIDCompute(p, measurement, setpoint, dt) ==
    LET error == RSub(setpoint, measurement)
        integral == RAdd(p.integral, RMul(error, dt))
        derivative == IF dt # RZero THEN RDiv(RSub(error, p.last_error), dt)
                      ELSE RZero
    IN  [ctl |-> [p EXCEPT !.integral = integral],
         out |-> RAdd(RAdd(RMul(p.kp, error), RMul(p.ki, integral)),
                      RMul(p.kd, derivative))]

\* ------------------------------------------------------------------------
\* Command maps and the on/off autopilot subsystems (ha_flight_pid.py)
\* ------------------------------------------------------------------------
\* The simulator properties a command map can name.  NoneKey is the Python
\* None that convert_to_jsbsim_prop_val returns for an unknown command.
NoneKey == "None"
EmptyMap == [k \in {} |-> RZero]

\* dict assignment d[k] = v, and a.update(b)
Put(d, k, v) == [x \in DOMAIN d \cup {k} |-> IF x = k THEN v ELSE d[x]]
Update(a, b) == [x \in DOMAIN a \cup DOMAIN b |-> IF x \in DOMAIN b THEN b[x] ELSE a[x]]

throttle_cmds == [i \in 1..21 |-> Rat(i - 1, 20)]
rpms == <<896, 951, 1008, 1069, 1127, 1188, 1253, 1324, 1403, 1490, 1588,
          1697, 1818, 1953, 2103, 2262, 2436, 2611, 2766, 2828, 2845>>

\* the interpolation without the interpolating term: a staircase
cessna_rpm_to_throttle_cmd_staircase(rpm) ==
    IF FLess(Int2R(rpms[Len(rpms)]), rpm) THEN ROne
    ELSE IF FLess(rpm, Int2R(rpms[1])) THEN RZero
    ELSE LET hits == {i \in 1..(Len(rpms) - 1) :
                        FLeq(Int2R(rpms[i]), rpm) /\ FLeq(rpm, Int2R(rpms[i + 1]))}
         IN  IF hits = {} THEN NoOut
             ELSE LET i == CHOOSE j \in hits : \A h \in hits : j <= h
                  IN  throttle_cmds[i]

\* The loop returns at the first interval that holds rpm; with no such
\* interval the function falls off its end and returns None.
cessna_rpm_to_throttle_cmd(rpm) ==
    IF FLess(Int2R(rpms[Len(rpms)]), rpm) THEN ROne
    ELSE IF FLess(rpm, Int2R(rpms[1])) THEN RZero
    ELSE LET hits == {i \in 1..(Len(rpms) - 1) :
                        FLeq(Int2R(rpms[i]), rpm) /\ FLeq(rpm, Int2R(rpms[i + 1]))}
         IN  IF hits = {} THEN NoOut
             ELSE LET i == CHOOSE j \in hits : \A h \in hits : j <= h
                  IN  RAdd(throttle_cmds[i],
                           RDiv(RMul(RSub(throttle_cmds[i + 1], throttle_cmds[i]),
                                     RSub(rpm, Int2R(rpms[i]))),
                                Int2R(rpms[i + 1] - rpms[i])))

\* ManualPropertiesSubsystem.convert_to_jsbsim_prop_val: <<property, value>>
convert_to_jsbsim_prop_val(prop_name, prop_val) ==
    CASE prop_name = "throttle" -> <<"throttle_cmd", cessna_rpm_to_throttle_cmd(prop_val)>>
      [] prop_name = "mixture" -> <<"mixture_cmd", prop_val>>
      [] OTHER -> <<NoneKey, NoOut>>

HeadingHoldAction(heading_setpoint) ==
    [k \in {"ap_hold_heading", "ap_heading_setpoint"} |->
        IF k = "ap_hold_heading" THEN ROne ELSE heading_setpoint]

AltitudeHoldAction(altitude_setpoint) ==
    [k \in {"ap_hold_altitude", "ap_altitude_setpoint"} |->
        IF k = "ap_hold_altitude" THEN ROne ELSE altitude_setpoint]

\* a wings-level subsystem that says nothing when it is not armed
StraightAndLevelSilentWhenOff(armed) ==
    IF armed = RZero THEN EmptyMap ELSE [k \in {"ap_hold_straight_and_level"} |-> armed]

StraightAndLevelAction(armed) ==
    [k \in {"ap_hold_straight_and_level"} |-> armed]

FGAPControlSubsystem == [steps |-> 0]

\* FGAPControlSubsystem.action: the subsystem after the call, the exception
\* raised ("none" when it returns) and the command map returned
FGAPAction(st, simAlt, des_alt, des_hdg) ==
    IF ~RLeq(des_hdg, Int2R(360))
    THEN [st |-> st, raised |-> "AssertionError", actions |-> EmptyMap]
    ELSE LET alt_change == RSub(des_alt, simAlt)
             throttle ==
                 IF RLeq(Int2R(150), alt_change) THEN cessna_rpm_to_throttle_cmd(Int2R(3000))
                 ELSE IF RLeq(Int2R(-150), alt_change) THEN cessna_rpm_to_throttle_cmd(Int2R(2300))
                 ELSE cessna_rpm_to_throttle_cmd(Int2R(1800))
             a1 == Update(HeadingHoldAction(des_hdg), AltitudeHoldAction(des_alt))
             a2 == Put(a1, "throttle_cmd", throttle)
             a3 == Put(a2, "mixture_cmd", <<4, 5>>)
         IN  [st |-> [st EXCEPT !.steps = @ + 1], raised |-> "none", actions |-> a3]

\* ------------------------------------------------------------------------
\* Evaluation record and its per-tick update
\* (control_interface_default.py update_eval, ha_flight_evals.py loop body)
\* ------------------------------------------------------------------------
ControlFreq == 5

NewEval(min_airspeed, max_man_time_mins, max_time_mins) ==
    [max_alt_overshoot |-> RZero,
     max_hdg_overshoot |-> RZero,
     max_load_factor |-> RZero,
     avg_load_factor |-> RZero,
     min_airspeed |-> min_airspeed,
     max_airspeed |-> Int2R(-1),
     avg_airspeed |-> RZero,
     avg_alt_steady_state_error |-> RZero,
     avg_hdg_steady_state_error |-> RZero,
     time_to_first_contact_s |-> RZero,
     max_man_time_mins |-> max_man_time_mins,
     max_time_mins |-> max_time_mins]

AltError(s, des_alt) == RAbs(RSub(des_alt, s.alt))
HdgError(s, des_hdg) ==
    RMin(RAbs(RSub(des_hdg, s.hdg)), RSub(Int2R(360), RAbs(RSub(des_hdg, s.hdg))))

\* the overshoot branches of the per-tick update
OvershootUpdate(old, change, measured, desired, err) ==
    IF RLess(change, RZero) /\ RLess(measured, desired) THEN RMax(old, err)
    ELSE IF RLess(RZero, change) /\ RLess(desired, measured) THEN RMax(old, err)
    ELSE old

\* one tick of evaluation bookkeeping: ev is the running record, s the
\* simulator properties read after the step, steps the tick counter
EvalUpdate(ev, alt_change, hdg_change, s, des_alt, des_hdg, steps, man_steps, tol_alt, tol_hdg) ==
    LET alt_error == AltError(s, des_alt)
        hdg_error == HdgError(s, des_hdg)
        steady == RLess(man_steps, Int2R(steps))
        contact == /\ RLess(alt_error, tol_alt)
                   /\ RLess(hdg_error, tol_hdg)
                   /\ ev.time_to_first_contact_s = RZero
    IN  [ev EXCEPT
            !.max_alt_overshoot =
                OvershootUpdate(@, alt_change, s.alt, des_alt, alt_error),
            !.max_hdg_overshoot =
                OvershootUpdate(@, hdg_change, s.hdg, des_hdg, hdg_error),
            !.max_load_factor = RMax(@, RAbs(s.load_factor)),
            !.avg_load_factor = RAdd(@, RAbs(s.load_factor)),
            !.min_airspeed = RMin(@, s.cas),
            !.max_airspeed = RMax(@, s.cas),
            !.avg_airspeed = RAdd(@, s.cas),
            !.avg_alt_steady_state_error = IF steady THEN RAdd(@, alt_error) ELSE @,
            !.avg_hdg_steady_state_error = IF steady THEN RAdd(@, hdg_error) ELSE @,
            !.time_to_first_contact_s =
                IF contact THEN RDiv(Int2R(steps), Int2R(ControlFreq)) ELSE @]

\* max(|alt_change| / 500, |hdg_change| / 180) * 1.5
MaxManeuverTimeMins(alt_change, hdg_change) ==
    RMul(RMax(RDiv(RAbs(alt_change), Int2R(500)), RDiv(RAbs(hdg_change), Int2R(180))),
         <<3, 2>>)

\* ------------------------------------------------------------------------
\* ControlInterfaceDefault (control_interface_default.py)
\* ------------------------------------------------------------------------
CI_ACCEPTABLE_HEADING_ERR == 10
CI_ACCEPTABLE_ALTITUDE_ERR == 100

\* Python None as the current instruction
NoInstruction == Put(EmptyMap, NoneKey, RZero)

CINewEval == NewEval(Int2R(1000), Int2R(-1), <<1, 60>>)

Dict1(k, v) == Put(EmptyMap, k, v)
Dict2(k1, v1, k2, v2) == Put(Dict1(k1, v1), k2, v2)
Dict3(k1, v1, k2, v2, k3, v3) == Put(Dict2(k1, v1, k2, v2), k3, v3)

\* The instructions the decision maker hands over: a dict with an optional
\* "control interface" section and an optional "manual" section.
InstructionSet ==
    { Dict2("control interface", EmptyMap, "manual", EmptyMap),
      Dict1("control interface", Dict2("heading", Int2R(90), "altitude", Int2R(5300))),
      Dict2("control interface",
            Dict3("heading", Int2R(370), "altitude", Int2R(4800), "wings level", ROne),
            "manual", Dict2("throttle", Int2R(1500), "mixture", <<1, 2>>)),
      Dict2("control interface", Dict1("altitude", Int2R(5300)),
            "manual", Dict2("throttle", Int2R(3000), "flaps", ROne)),
      Dict1("control interface", Dict1("heading", Int2R(90))),
      Dict1("manual", Dict1("throttle", Int2R(1500))) }

SimAltSet == {Int2R(5000), Int2R(5400)}
SimHdgSet == {Int2R(10), Int2R(350)}
SimCasSet == {Int2R(100)}
SimLoadSet == {ROne}
SimStates ==
    [alt : SimAltSet, hdg : SimHdgSet, cas : SimCasSet, load_factor : SimLoadSet]

CIInit ==
    /\ current_instruction = NoInstruction
    /\ instructions = <<>>
    /\ evals = <<>>
    /\ cur_eval = CINewEval
    /\ cur_alt_change = RZero
    /\ cur_hdg_change = RZero
    /\ instr_steps = 0
    /\ steps_total = 0
    /\ max_man_steps = NoOut
    /\ ha_control_subsystem = FGAPControlSubsystem
    /\ sim \in SimStates
    /\ ciResult = [op |-> "init", raised |-> "none", actions |-> EmptyMap]
    /\ nSets = 0

HasKey(d, k) == k \in DOMAIN d

\* a finalisation that divides the avg fields a second time
FinalizeAveragesTwice(ev, n) ==
    [ev EXCEPT !.avg_airspeed = RDiv(RDiv(@, Int2R(n)), Int2R(n)),
               !.avg_load_factor = RDiv(RDiv(@, Int2R(n)), Int2R(n)),
               !.avg_alt_steady_state_error = RDiv(RDiv(@, Int2R(n)), Int2R(n)),
               !.avg_hdg_steady_state_error = RDiv(RDiv(@, Int2R(n)), Int2R(n))]

\* the avg fields of the closing record divided by the instruction's ticks
FinalizeAverages(ev, n) ==
    [ev EXCEPT !.avg_airspeed = RDiv(@, Int2R(n)),
               !.avg_load_factor = RDiv(@, Int2R(n)),
               !.avg_alt_steady_state_error = RDiv(@, Int2R(n)),
               !.avg_hdg_steady_state_error = RDiv(@, Int2R(n))]

set_instruction(instruction) ==
    /\ nSets < MaxSets
    /\ nSets' = nSets + 1
    /\ UNCHANGED <<steps_total, ha_control_subsystem, sim>>
    /\ IF current_instruction # NoInstruction /\ instr_steps = 0
       THEN \* the first division raises after the append of line 64
            /\ instructions' = Append(instructions, current_instruction)
            /\ ciResult' = [op |-> "set_instruction", raised |-> "ZeroDivisionError",
                            actions |-> EmptyMap]
            /\ UNCHANGED <<current_instruction, evals, cur_eval, cur_alt_change,
                           cur_hdg_change, instr_steps, max_man_steps>>
       ELSE LET closing == current_instruction # NoInstruction
                hasTargets ==
                    /\ HasKey(instruction, "control interface")
                    /\ HasKey(instruction["control interface"], "altitude")
                    /\ HasKey(instruction["control interface"], "heading")
                alt_change ==
                    IF hasTargets
                    THEN RSub(instruction["control interface"]["altitude"], sim.alt)
                    ELSE RZero
                hdg_change ==
                    IF hasTargets
                    THEN RSub(instruction["control interface"]["heading"], sim.hdg)
                    ELSE RZero
            IN  /\ instructions' =
                       Append(IF closing THEN Append(instructions, current_instruction)
                              ELSE instructions, instruction)
                /\ evals' = IF closing
                            THEN Append(evals, FinalizeAverages(cur_eval, instr_steps))
                            ELSE evals
                /\ current_instruction' = instruction
                /\ cur_eval' = CINewEval
                /\ cur_alt_change' = alt_change
                /\ cur_hdg_change' = hdg_change
                /\ instr_steps' = 0
                /\ max_man_steps' =
                       RMul(RMul(MaxManeuverTimeMins(alt_change, hdg_change), Int2R(60)),
                            Int2R(ControlFreq))
                /\ ciResult' = [op |-> "set_instruction", raised |-> "none",
                                actions |-> EmptyMap]

\* the manual section's entries as simulator property writes
ManualOverrides(manual) ==
    LET conv(k) == convert_to_jsbsim_prop_val(k, manual[k])
    IN  [p \in {conv(k)[1] : k \in DOMAIN manual} |->
            LET k == CHOOSE n \in DOMAIN manual : conv(n)[1] = p IN conv(k)[2]]

\* a merge that lets the autopilot subsystems write after the manual section
MergeManualFirst(haActions, levelActions, manualActions) ==
    Update(Update(manualActions, haActions), levelActions)

\* the order in which action() fills the command map: heading/altitude
\* subsystem, then wings level, then the manual section
MergeActions(haActions, levelActions, manualActions) ==
    Update(Update(haActions, levelActions), manualActions)

update_eval(s, des_alt, des_hdg) ==
    EvalUpdate(cur_eval, cur_alt_change, cur_hdg_change, s, des_alt, des_hdg,
               instr_steps, max_man_steps,
               Int2R(CI_ACCEPTABLE_ALTITUDE_ERR), Int2R(CI_ACCEPTABLE_HEADING_ERR))

action ==
    /\ current_instruction # NoInstruction
    /\ instr_steps < MaxTicks
    /\ ha_control_subsystem.steps < MaxActions
    /\ LET hasCI == HasKey(current_instruction, "control interface")
           ci == IF hasCI THEN current_instruction["control interface"] ELSE EmptyMap
           des_alt == IF HasKey(ci, "altitude") THEN ci["altitude"] ELSE sim.alt
           des_hdg == IF HasKey(ci, "heading") THEN RMod(ci["heading"], 360) ELSE sim.hdg
           ha == FGAPAction(ha_control_subsystem, sim.alt, des_alt, des_hdg)
           level == StraightAndLevelAction(
                        IF HasKey(ci, "wings level") THEN ci["wings level"] ELSE RZero)
           a3 == MergeActions(ha.actions, level,
                              IF HasKey(current_instruction, "manual")
                              THEN ManualOverrides(current_instruction["manual"])
                              ELSE EmptyMap)
       IN  IF ha.raised # "none"
           THEN /\ ciResult' = [op |-> "action", raised |-> ha.raised, actions |-> EmptyMap]
                /\ UNCHANGED <<ha_control_subsystem, cur_eval, steps_total, instr_steps>>
           ELSE IF ~hasCI
           THEN \* line 119 looks the section up outside any try
                /\ ciResult' = [op |-> "action", raised |-> "KeyError", actions |-> EmptyMap]
                /\ ha_control_subsystem' = ha.st
                /\ UNCHANGED <<cur_eval, steps_total, instr_steps>>
           ELSE /\ ciResult' = [op |-> "action", raised |-> "none", actions |-> a3,
                                des_alt |-> des_alt, des_hdg |-> des_hdg, ha |-> ha.actions]
                /\ ha_control_subsystem' = ha.st
                /\ cur_eval' = update_eval(sim, des_alt, des_hdg)
                /\ steps_total' = steps_total + 1
                /\ instr_steps' = instr_steps + 1
    /\ UNCHANGED <<current_instruction, instructions, evals, cur_alt_change,
                   cur_hdg_change, max_man_steps, sim, nSets>>

\* the scenario applies the command map and advances the engine, which
\* moves the aircraft
SimStep ==
    /\ ciResult.op = "action"
    /\ \E s \in SimStates : sim' = s
    /\ ciResult' = [ciResult EXCEPT !.op = "step"]
    /\ UNCHANGED <<current_instruction, instructions, evals, cur_eval, cur_alt_change,
                   cur_hdg_change, instr_steps, steps_total, max_man_steps,
                   ha_control_subsystem, nSets>>

CINext ==
    \/ \E i \in InstructionSet : set_instruction(i) /\ UNCHANGED <<pidVars, aggVars, haVars, stepVars, rpmVars, copyVars, agentVars, btVars>>
    \/ action /\ UNCHANGED <<pidVars, aggVars, haVars, stepVars, rpmVars, copyVars, agentVars, btVars>>
    \/ SimStep /\ UNCHANGED <<pidVars, aggVars, haVars, stepVars, rpmVars, copyVars, agentVars, btVars>>

\* ------------------------------------------------------------------------
\* PID subsystems and aggregators
\* (ha_flight_pid.py, power_off_pid.py, subsystems/rp_flight_pid.py)
\* ------------------------------------------------------------------------
TrimKey == "simulation/do_simple_trim"
JSBSIM_DT_HZ == 60

\* numpy.clip
clip(x, lo, hi) == IF RLess(x, lo) THEN lo ELSE IF RLess(hi, x) THEN hi ELSE x

\* sim.get_property(prp.sim_dt) * sim.control_agent_interaction_freq
PowerOffDt == RMul(Rat(1, JSBSIM_DT_HZ), Int2R(ControlFreq))

\* calls, computed, dt and prev_time are history fields: the calls made on
\* the instance, whether the last call invoked compute, the dt it used and
\* the _last_time it found
AltitudePIDSubsystem ==
    [alt_hold_pid |-> PIDController(RZero, RZero, RZero), last_time |-> NoOut,
     calls |-> 0, computed |-> FALSE, dt |-> NoOut, prev_time |-> NoOut]

\* a first call that takes one control period as its dt
AltitudePIDActionUnitDt(sub, s, des_alt) ==
    LET dt == IF sub.last_time = NoOut THEN Rat(1, ControlFreq)
              ELSE RSub(s.time, sub.last_time)
        engaged == RLess(RAbs(RSub(des_alt, s.alt)), Int2R(100))
        r == PIDCompute(sub.alt_hold_pid, s.alt, des_alt, dt)
    IN  [st |-> [alt_hold_pid |-> IF engaged THEN r.ctl ELSE sub.alt_hold_pid,
                 last_time |-> s.time,
                 calls |-> sub.calls + 1, computed |-> engaged, dt |-> dt,
                 prev_time |-> sub.last_time],
         actions |-> Dict1("elevator_cmd", IF engaged THEN r.out ELSE RZero)]

AltitudePIDAction(sub, s, des_alt) ==
    LET last == IF sub.last_time = NoOut THEN s.time ELSE sub.last_time
        dt == RSub(s.time, last)
        engaged == RLess(RAbs(RSub(des_alt, s.alt)), Int2R(100))
        r == PIDCompute(sub.alt_hold_pid, s.alt, des_alt, dt)
    IN  [st |-> [alt_hold_pid |-> IF engaged THEN r.ctl ELSE sub.alt_hold_pid,
                 last_time |-> s.time,
                 calls |-> sub.calls + 1, computed |-> engaged, dt |-> dt,
                 prev_time |-> sub.last_time],
         actions |-> Dict1("elevator_cmd", IF engaged THEN r.out ELSE RZero)]

HAPIDControlSubsystem ==
    [kind |-> "HAPID", num_steps |-> 0, trim_throttle |-> NoOut, trim_pitch |-> NoOut,
     altitude_subsystem |-> AltitudePIDSubsystem]

\* an aggregator that never advances its tick counter
HAPIDActionNoCount(st, s, des_alt, des_hdg) ==
    IF ~RLeq(des_hdg, Int2R(360))
    THEN [st |-> st, raised |-> "AssertionError", actions |-> EmptyMap]
    ELSE LET a0 == IF st.num_steps = 0 THEN Dict1(TrimKey, RZero) ELSE EmptyMap
             a1 == Put(a0, "mixture_cmd", <<99, 100>>)
             a2 == Update(a1, HeadingHoldAction(des_hdg))
             alt == AltitudePIDAction(st.altitude_subsystem, s, des_alt)
         IN  [st |-> [st EXCEPT !.altitude_subsystem = alt.st],
              raised |-> "none", actions |-> Update(a2, alt.actions)]

HAPIDAction(st, s, des_alt, des_hdg) ==
    IF ~RLeq(des_hdg, Int2R(360))
    THEN [st |-> st, raised |-> "AssertionError", actions |-> EmptyMap]
    ELSE LET a0 == IF st.num_steps = 0 THEN Dict1(TrimKey, RZero) ELSE EmptyMap
             snap == st.num_steps = 1
             a1 == Put(a0, "mixture_cmd", <<99, 100>>)
             a2 == Update(a1, HeadingHoldAction(des_hdg))
             alt == AltitudePIDAction(st.altitude_subsystem, s, des_alt)
         IN  [st |-> [st EXCEPT
                        !.trim_throttle = IF snap THEN s.throttle_cmd ELSE @,
                        !.trim_pitch = IF snap THEN s.pitch_rad ELSE @,
                        !.altitude_subsystem = alt.st,
                        !.num_steps = @ + 1],
              raised |-> "none", actions |-> Update(a2, alt.actions)]

FGAPInstance == [kind |-> "FGAP", steps |-> 0]

FGAPInstanceAction(st, s, des_alt, des_hdg) ==
    LET r == FGAPAction([steps |-> st.steps], s.alt, des_alt, des_hdg)
    IN  [st |-> [st EXCEPT !.steps = r.st.steps], raised |-> r.raised,
         actions |-> r.actions]

PowerOffControlSubsystemRawPID ==
    [kind |-> "PORaw", num_steps |-> 0,
     airspeed_pid |-> PIDController(<<1, 200>>, <<1, 1000>>, RZero),
     trim_throttle |-> NoOut, trim_pitch |-> NoOut]

PowerOffRawAction(st, s, des_airspeed, des_hdg) ==
    IF ~(RLeq(RZero, des_hdg) /\ RLeq(des_hdg, Int2R(360)))
    THEN [st |-> st, raised |-> "AssertionError", actions |-> EmptyMap]
    ELSE LET a0 == IF st.num_steps = 0 THEN Dict1(TrimKey, RZero) ELSE EmptyMap
             r == PIDCompute(st.airspeed_pid, s.cas, des_airspeed, PowerOffDt)
             a1 == Put(a0, "elevator_cmd", clip(r.out, <<-1, 2>>, <<1, 2>>))
         IN  [st |-> [st EXCEPT !.airspeed_pid = r.ctl, !.num_steps = @ + 1],
              raised |-> "none", actions |-> Update(a1, HeadingHoldAction(des_hdg))]

PowerOffControlSubsystemDiffPID ==
    [kind |-> "PODiff", num_steps |-> 0,
     airspeed_rate_pid |-> PIDController(<<1, 2>>, RZero, RZero),
     elevator_pid |-> PIDController(<<3, 100>>, <<7, 400>>, RZero),
     actual_rocs |-> <<>>, rocs |-> <<>>, times |-> <<>>, last_airspeed |-> RZero]

PowerOffDiffAction(st, s, des_airspeed, des_hdg) ==
    IF ~(RLeq(RZero, des_hdg) /\ RLeq(des_hdg, Int2R(360)))
    THEN [st |-> st, raised |-> "AssertionError", actions |-> EmptyMap]
    ELSE LET first == st.num_steps = 0
             a0 == IF first THEN Dict1(TrimKey, RZero) ELSE EmptyMap
             last_airspeed == IF first THEN s.cas ELSE st.last_airspeed
             dt == PowerOffDt
             r1 == PIDCompute(st.airspeed_rate_pid, s.cas, des_airspeed, dt)
             cas_roc == clip(r1.out, Int2R(-5), Int2R(5))
             airspeed_rate == RDiv(RSub(s.cas, last_airspeed), dt)
             r2 == PIDCompute(st.elevator_pid, airspeed_rate, cas_roc, dt)
             a1 == Put(a0, "elevator_cmd", clip(r2.out, <<-1, 2>>, <<1, 2>>))
         IN  [st |-> [st EXCEPT !.airspeed_rate_pid = r1.ctl,
                                !.elevator_pid = r2.ctl,
                                !.num_steps = @ + 1,
                                !.last_airspeed = s.cas,
                                !.rocs = Append(@, cas_roc),
                                !.actual_rocs = Append(@, airspeed_rate),
                                !.times = Append(@, s.time)],
              raised |-> "none", actions |-> Update(a1, HeadingHoldAction(des_hdg))]

PowerOffDiffReset(st) == PowerOffControlSubsystemDiffPID

FlightPathPIDSubsystem ==
    [flight_path_hold_pid |-> PIDController(<<71, 1000>>, <<11, 2000>>, RZero),
     throttle_pid |-> PIDController(<<1, 100>>, <<1, 1000>>, RZero),
     min_cmd |-> <<-1, 2>>, max_cmd |-> <<1, 2>>, num_steps |-> 0,
     target_airspeed |-> Int2R(80), trim_throttle |-> ROne,
     last_time |-> NoOut, last_trim_fpa |-> Int2R(-1000)]

FlightPathPIDAction(sub, s, des_flight_path) ==
    LET last == IF sub.last_time = NoOut THEN s.time ELSE sub.last_time
        dt == RSub(s.time, last)
        r1 == PIDCompute(sub.flight_path_hold_pid, s.flight_path, des_flight_path, dt)
        elevator_cmd == IF RLess(sub.last_trim_fpa, Int2R(-999))
                        THEN clip(RNeg(r1.out), sub.min_cmd, sub.max_cmd)
                        ELSE RZero
        r2 == PIDCompute(sub.throttle_pid, s.cas, sub.target_airspeed, dt)
        throttle == RAdd(s.throttle_cmd, clip(RMul(r2.out, dt), Int2R(-1), ROne))
    IN  [st |-> [sub EXCEPT !.flight_path_hold_pid = r1.ctl,
                            !.throttle_pid = r2.ctl,
                            !.last_time = s.time,
                            !.num_steps = @ + 1],
         actions |-> Dict2("elevator_cmd", elevator_cmd, "throttle_cmd", throttle)]

RollSubsystemAction(des_roll) == Dict1("ap_hold_straight_and_level", ROne)

RPPIDControlSubsystem ==
    [kind |-> "RPPID", num_steps |-> 0, trim_throttle |-> NoOut, trim_pitch |-> NoOut,
     trim_aoa |-> NoOut, pitch_subsystem |-> FlightPathPIDSubsystem]

RPPIDAction(st, s, des_pitch, des_roll) ==
    IF ~RLeq(des_roll, Int2R(360))
    THEN [st |-> st, raised |-> "AssertionError", actions |-> EmptyMap]
    ELSE LET a0 == IF st.num_steps = 0 THEN Dict1(TrimKey, RZero) ELSE EmptyMap
             snap == st.num_steps = 1
             pitch0 == IF snap
                       THEN [st.pitch_subsystem EXCEPT !.trim_throttle = s.throttle_cmd]
                       ELSE st.pitch_subsystem
             a1 == Update(a0, RollSubsystemAction(des_roll))
             fp == FlightPathPIDAction(pitch0, s, des_pitch)
         IN  [st |-> [st EXCEPT
                        !.trim_throttle = IF snap THEN s.throttle_cmd ELSE @,
                        !.trim_pitch = IF snap THEN s.pitch_rad ELSE @,
                        !.trim_aoa = IF snap THEN s.aoa ELSE @,
                        !.pitch_subsystem = fp.st,
                        !.num_steps = @ + 1],
              raised |-> "none", actions |-> Update(a1, fp.actions)]

\* action() of whichever aggregator the instance is
AggregatorAction(st, s, des1, des2) ==
    CASE st.kind = "HAPID" -> HAPIDAction(st, s, des1, des2)
      [] st.kind = "FGAP" -> FGAPInstanceAction(st, s, des1, des2)
      [] st.kind = "PORaw" -> PowerOffRawAction(st, s, des1, des2)
      [] st.kind = "PODiff" -> PowerOffDiffAction(st, s, des1, des2)
      [] st.kind = "RPPID" -> RPPIDAction(st, s, des1, des2)

Aggregators ==
    {HAPIDControlSubsystem, FGAPInstance, PowerOffControlSubsystemRawPID,
     PowerOffControlSubsystemDiffPID, RPPIDControlSubsystem}

\* the first argument the harness of each aggregator passes: a desired
\* altitude, a desired airspeed or a desired flight-path angle
Des1Set(kind) ==
    CASE kind \in {"HAPID", "FGAP"} -> {Int2R(5050), Int2R(5300)}
      [] kind \in {"PORaw", "PODiff"} -> {Int2R(65)}
      [] OTHER -> {Int2R(3)}
\* the second: a desired heading (or roll)
Des2Set == {Int2R(90), Int2R(400), Int2R(-60)}

AggCasSet == {Int2R(60), Int2R(70)}
AggSimInit ==
    [time |-> RZero, alt |-> Int2R(5000), cas |-> Int2R(60), flight_path |-> RZero,
     throttle_cmd |-> <<4, 5>>, pitch_rad |-> <<1, 50>>, aoa |-> <<1, 25>>]

AggInit ==
    /\ agg \in Aggregators
    /\ aggSim = AggSimInit
    /\ aggResult = [op |-> "init", raised |-> "none", actions |-> EmptyMap]
    /\ aggCalls = 0
    /\ aggReturns = 0
    /\ aggResets = 0

AggAction(des1, des2) ==
    /\ aggCalls < MaxAggCalls
    /\ LET r == AggregatorAction(agg, aggSim, des1, des2)
       IN  /\ agg' = r.st
           /\ aggResult' = [op |-> "action", raised |-> r.raised, actions |-> r.actions,
                            des1 |-> des1, des_hdg |-> des2]
           /\ aggReturns' = IF r.raised = "none" THEN aggReturns + 1 ELSE aggReturns
    /\ aggCalls' = aggCalls + 1
    /\ UNCHANGED <<aggSim, aggResets>>

\* the harness applies the command map and advances the engine by one
\* control period
AggSimStep ==
    /\ aggResult.op = "action"
    /\ aggResult.raised = "none"
    /\ \E c \in AggCasSet :
          aggSim' = [aggSim EXCEPT !.time = RAdd(@, Rat(1, ControlFreq)), !.cas = c]
    /\ aggResult' = [aggResult EXCEPT !.op = "step"]
    /\ UNCHANGED <<agg, aggCalls, aggReturns, aggResets>>

AggReset ==
    /\ agg.kind = "PODiff"
    /\ aggResets < 1
    /\ agg' = PowerOffDiffReset(agg)
    /\ aggResult' = [op |-> "reset", raised |-> "none", actions |-> EmptyMap]
    /\ aggReturns' = 0
    /\ aggResets' = aggResets + 1
    /\ UNCHANGED <<aggSim, aggCalls>>

AggNext ==
    \/ \E d1 \in Des1Set(agg.kind), d2 \in Des2Set :
          AggAction(d1, d2) /\ UNCHANGED <<pidVars, ciVars, haVars, stepVars, rpmVars, copyVars, agentVars, btVars>>
    \/ AggSimStep /\ UNCHANGED <<pidVars, ciVars, haVars, stepVars, rpmVars, copyVars, agentVars, btVars>>
    \/ AggReset /\ UNCHANGED <<pidVars, ciVars, haVars, stepVars, rpmVars, copyVars, agentVars, btVars>>

AggIdle ==
    /\ agg = FGAPInstance
    /\ aggSim = AggSimInit
    /\ aggResult = [op |-> "init", raised |-> "none", actions |-> EmptyMap]
    /\ aggCalls = 0
    /\ aggReturns = 0
    /\ aggResets = 0

\* ------------------------------------------------------------------------
\* HAFlightControlEval.run_single_eval (ha_flight_evals.py)
\* The per-tick trajectory lists (trj_*) and the wind draw are logs and
\* initial conditions of the engine; they take no part in the evaluation
\* record and are left out.
\* ------------------------------------------------------------------------
HA_ACCEPTABLE_HEADING_ERR == <<15, 2>>
HA_ACCEPTABLE_ALTITUDE_ERR == 50
InitialAlt == 5000
InitialHdg == 0
InteractionFreq == 5
SteadyStateSeconds == 90
CruiseSpeedKts == 100

\* representative draws of random.uniform for the cases that are run
AltDraws(alt_case) ==
    CASE alt_case = "ALT_HOLD" -> {RZero}
      [] alt_case = "CLB_L_200" -> {Int2R(20)}
      [] alt_case = "DSC_L_200" -> {RNeg(Int2R(33))}

HdgDraws(hdg_case) ==
    CASE hdg_case = "HDG_HOLD" -> {RZero}
      [] hdg_case = "HDG_L_45" -> {Int2R(5), RNeg(Int2R(12))}

AltCases == {"ALT_HOLD", "CLB_L_200", "DSC_L_200"}
HdgCases == {"HDG_HOLD", "HDG_L_45"}

RSgn(a) == IF a[1] > 0 THEN 1 ELSE IF a[1] < 0 THEN -1 ELSE 0

\* smallest integer not below a
RCeil(a) == IF a[1] % a[2] = 0 THEN a[1] \div a[2] ELSE (a[1] \div a[2]) + 1

\* sim.get_property(prp.heading_deg): the engine reports the heading
\* reduced to [0, 360)
MeasuredHeading(uhdg) == RMod(uhdg, 360)

\* the properties the loop body reads from the session
Observed(es) ==
    [alt |-> es.alt, hdg |-> MeasuredHeading(es.uhdg), cas |-> es.cas,
     load_factor |-> es.load_factor]

\* where one control period can leave the aircraft: at the start point,
\* short of the target, on it, past it, or drifted to the far side of the
\* start point.  uhdg is the heading counted continuously from the start.
AircraftPoints(t) ==
    LET sa == RSgn(t.alt_change)
        sh == RSgn(t.hdg_change)
        P(alt, uhdg) == [alt |-> alt, uhdg |-> uhdg, cas |-> Int2R(CruiseSpeedKts),
                         load_factor |-> ROne, open |-> TRUE]
    IN  { P(Int2R(InitialAlt), Int2R(InitialHdg)),
          P(RSub(t.des_alt, Int2R(sa * 10)), RSub(t.des_hdg, Int2R(sh * 2))),
          P(t.des_alt, t.des_hdg),
          P(RAdd(t.des_alt, Int2R(sa * 30)), RAdd(t.des_hdg, Int2R(sh * 10))),
          P(Int2R(InitialAlt - sa * 30), Int2R(InitialHdg - sh * 10)) }

\* aircraft.c172x: the speeds sort_evals reads
c172x == [cruise_speed_kts |-> Int2R(CruiseSpeedKts), Vs1 |-> Int2R(47), Vne |-> Int2R(160)]

NoTrial == [phase |-> "idle"]

HAInit ==
    /\ trial = NoTrial
    /\ haSim = [open |-> FALSE]
    /\ harness = [evals |-> <<>>, cases |-> <<>>, initial_conditions |-> <<>>,
                  sorted_indices |-> NoOut, aircraft |-> NoOut]
    /\ ticksRun = 0
    /\ batchResult = [op |-> "none"]

\* lines 92-225: checks, draws, step budget, evaluation record, session
Setup(alt_case, hdg_case, alt_change, hdg_change, control_subsystem) ==
    /\ trial.phase = "idle"
    /\ LET max_maneuver_time_mins == MaxManeuverTimeMins(alt_change, hdg_change)
           man_steps == RMul(RMul(max_maneuver_time_mins, Int2R(60)),
                                 Int2R(InteractionFreq))
           max_steps == RAdd(man_steps, Int2R(SteadyStateSeconds * InteractionFreq))
       IN  trial' =
             [phase |-> "running",
              alt_case |-> alt_case, hdg_case |-> hdg_case,
              alt_change |-> alt_change, hdg_change |-> hdg_change,
              des_alt |-> RAdd(Int2R(InitialAlt), alt_change),
              des_hdg |-> RAdd(Int2R(InitialHdg), hdg_change),
              max_man_steps |-> man_steps,
              max_steps |-> max_steps,
              num_steps |-> 0,
              cur_eval |-> NewEval(Int2R(CruiseSpeedKts), max_maneuver_time_mins,
                                   RDiv(RDiv(max_steps, Int2R(InteractionFreq)), Int2R(60))),
              control_subsystem |-> control_subsystem,
              \* history of the run: the per-tick errors of the ticks after
              \* max_man_steps, their number, and the first tick in contact
              ss_alt_errors |-> RZero, ss_hdg_errors |-> RZero, ss_ticks |-> 0,
              first_contact |-> -1]
    /\ haSim' = [alt |-> Int2R(InitialAlt), uhdg |-> Int2R(InitialHdg),
                 cas |-> Int2R(CruiseSpeedKts), load_factor |-> ROne, open |-> TRUE]
    /\ harness' = [harness EXCEPT !.aircraft = c172x]
    /\ batchResult' = [op |-> "run_single_eval"]
    /\ UNCHANGED ticksRun

\* a loop that runs one more tick when the budget is a whole number
LoopContinuesInclusive(num_steps, max_steps) == RLeq(Int2R(num_steps), max_steps)

\* while num_steps < max_steps
LoopContinues(num_steps, max_steps) == RLess(Int2R(num_steps), max_steps)

\* one iteration of the Running loop (lines 226-290): the subsystem's
\* action, the engine step that moves the aircraft, the evaluation update
Tick ==
    /\ trial.phase = "running"
    /\ LoopContinues(trial.num_steps, trial.max_steps)
    /\ LET r == AggregatorAction(trial.control_subsystem, Observed(haSim),
                                 trial.des_alt, trial.des_hdg)
       IN  /\ r.raised = "none"
           /\ \E next \in (IF trial.num_steps < MaxMoveTicks THEN AircraftPoints(trial)
                           ELSE {haSim}) :
                /\ haSim' = next
                /\ trial' = [trial EXCEPT
                       !.control_subsystem = r.st,
                       !.cur_eval =
                           EvalUpdate(@, trial.alt_change, trial.hdg_change,
                                      Observed(next), trial.des_alt, trial.des_hdg,
                                      trial.num_steps, trial.max_man_steps,
                                      Int2R(HA_ACCEPTABLE_ALTITUDE_ERR),
                                      HA_ACCEPTABLE_HEADING_ERR),
                       !.num_steps = @ + 1,
                       !.ss_alt_errors =
                           IF RLess(trial.max_man_steps, Int2R(trial.num_steps))
                           THEN RAdd(@, AltError(Observed(next), trial.des_alt)) ELSE @,
                       !.ss_hdg_errors =
                           IF RLess(trial.max_man_steps, Int2R(trial.num_steps))
                           THEN RAdd(@, HdgError(Observed(next), trial.des_hdg)) ELSE @,
                       !.ss_ticks =
                           IF RLess(trial.max_man_steps, Int2R(trial.num_steps))
                           THEN @ + 1 ELSE @,
                       !.first_contact =
                           IF /\ @ = -1
                              /\ RLess(AltError(Observed(next), trial.des_alt),
                                       Int2R(HA_ACCEPTABLE_ALTITUDE_ERR))
                              /\ RLess(HdgError(Observed(next), trial.des_hdg),
                                       HA_ACCEPTABLE_HEADING_ERR)
                           THEN trial.num_steps ELSE @]
    /\ ticksRun' = ticksRun + 1
    /\ UNCHANGED <<harness, batchResult>>

\* lines 291-326: the session is closed, the averages are divided by the
\* tick count and the trial is appended to the batch collections
Finish ==
    /\ trial.phase = "running"
    /\ ~LoopContinues(trial.num_steps, trial.max_steps)
    /\ haSim' = [haSim EXCEPT !.open = FALSE]
    /\ LET ev == FinalizeAverages(trial.cur_eval, trial.num_steps)
       IN  /\ trial' = [trial EXCEPT !.phase = "finalized", !.cur_eval = ev]
           /\ harness' =
                [harness EXCEPT
                   !.evals = Append(@, ev),
                   !.cases = Append(@, <<trial.alt_case, trial.hdg_case>>),
                   !.initial_conditions =
                       Append(@, [altitude_change_desired |-> trial.alt_change,
                                  heading_change_desired |-> trial.hdg_change])]
    /\ UNCHANGED <<ticksRun, batchResult>>

\* ------------------------------------------------------------------------
\* HAFlightControlEval.sort_evals and create_batch_eval (ha_flight_evals.py)
\* ------------------------------------------------------------------------
MaxIndexLen == 2

RFloor(a) == a[1] \div a[2]

\* Python round(x) of a float: to the nearest integer, a tie to the even one
round(a) ==
    LET f == RFloor(a)
        r == RSub(a, Int2R(f))
    IN  IF RLess(r, <<1, 2>>) THEN f
        ELSE IF RLess(<<1, 2>>, r) THEN f + 1
        ELSE IF f % 2 = 0 THEN f ELSE f + 1

round_to_nearest(value, base) == RMul(Int2R(round(RDiv(value, base))), base)

\* int(bool)
BoolInt(b) == IF b THEN ROne ELSE RZero

BufferTimeS == 5

\* criterion 4 of the key: time to first contact against the expected time
late_contact(eval) ==
    RLess(RAdd(RDiv(eval.max_man_time_mins, Int2R(60)), Int2R(BufferTimeS)),
          eval.time_to_first_contact_s)

eval_sort_key(eval, aircraft) ==
    LET airspeed_violation == \/ RLess(eval.min_airspeed, aircraft.Vs1)
                              \/ RLess(aircraft.Vne, eval.max_airspeed)
    IN  << BoolInt(airspeed_violation),
           round_to_nearest(eval.avg_alt_steady_state_error, Int2R(50)),
           round_to_nearest(eval.max_alt_overshoot, Int2R(50)),
           BoolInt(late_contact(eval)),
           round_to_nearest(eval.max_load_factor, <<1, 2>>) >>

\* tuple comparison: the first differing component decides
KeyLess(k1, k2) ==
    \E i \in 1..Len(k1) :
        /\ RLess(k1[i], k2[i])
        /\ \A j \in 1..(i - 1) : k1[j] = k2[j]

\* list.sort(key=...) is stable: equal keys keep their order in the list.
\* The place (from 0) of entry i of evs in the ascending order.
SortPlace(evs, aircraft, i) ==
    Cardinality({j \in 1..Len(evs) :
        \/ KeyLess(eval_sort_key(evs[j], aircraft), eval_sort_key(evs[i], aircraft))
        \/ /\ eval_sort_key(evs[j], aircraft) = eval_sort_key(evs[i], aircraft)
           /\ j < i})

\* the indices left in ascending order, without the reverse()
SortedIndicesAscending(evs, aircraft) ==
    [p \in 1..Len(evs) |->
        (CHOOSE i \in 1..Len(evs) : SortPlace(evs, aircraft, i) = p - 1) - 1]

\* the indices (from 0, as Python counts) after sort() and reverse()
SortedIndices(evs, aircraft) ==
    [p \in 1..Len(evs) |->
        (CHOOSE i \in 1..Len(evs) : SortPlace(evs, aircraft, i) = Len(evs) - p) - 1]

sort_evals ==
    /\ trial.phase \in {"idle", "finalized"}
    /\ IF harness.evals # <<>> /\ harness.aircraft = NoOut
       THEN \* self.aircraft.Vs1 on None
            /\ batchResult' = [op |-> "sort_evals", raised |-> "AttributeError"]
            /\ UNCHANGED harness
       ELSE LET idx == SortedIndices(harness.evals, harness.aircraft)
            IN  /\ harness' = [harness EXCEPT !.sorted_indices = idx]
                /\ batchResult' =
                     [op |-> "sort_evals", raised |-> "none", indices |-> idx,
                      criteria |-> [p \in 1..Len(idx) |->
                          eval_sort_key(harness.evals[idx[p] + 1], harness.aircraft)]]
    /\ UNCHANGED <<trial, haSim, ticksRun>>

NewBatchEval ==
    [max_alt_overshoot |-> RZero,
     max_alt_avg_steady_state_error |-> RZero,
     avg_alt_steady_state_error |-> RZero,
     avg_max_alt_overshoot |-> RZero,
     avg_hdg_steady_state_error |-> RZero,
     max_hdg_overshoot |-> RZero,
     avg_time_fufillment |-> RZero,
     mean_abs_alt_steady_state_error |-> RZero]

\* a first loop whose penalty for a contact never reached is the budget itself
BatchAccumulatePenaltyOnce(b, ev) ==
    LET time_first_c ==
            IF ev.time_to_first_contact_s = RZero
            THEN RMul(ev.max_man_time_mins, Int2R(60))
            ELSE ev.time_to_first_contact_s
    IN  [b EXCEPT
           !.max_alt_overshoot = RMax(@, ev.max_alt_overshoot),
           !.max_alt_avg_steady_state_error = RMax(@, ev.avg_alt_steady_state_error),
           !.avg_alt_steady_state_error = RAdd(@, ev.avg_alt_steady_state_error),
           !.avg_max_alt_overshoot = RAdd(@, ev.max_alt_overshoot),
           !.avg_hdg_steady_state_error = RAdd(@, ev.avg_hdg_steady_state_error),
           !.max_hdg_overshoot = RMax(@, ev.max_hdg_overshoot),
           !.avg_time_fufillment =
               IF ev.max_man_time_mins # RZero
               THEN RAdd(@, RDiv(RDiv(time_first_c, ev.max_man_time_mins), Int2R(60)))
               ELSE @]

\* the body of the first loop of create_batch_eval for one index
BatchAccumulate(b, ev) ==
    LET time_first_c ==
            IF ev.time_to_first_contact_s = RZero
            THEN RMul(RMul(ev.max_man_time_mins, Int2R(2)), Int2R(60))
            ELSE ev.time_to_first_contact_s
    IN  [b EXCEPT
           !.max_alt_overshoot = RMax(@, ev.max_alt_overshoot),
           !.max_alt_avg_steady_state_error = RMax(@, ev.avg_alt_steady_state_error),
           !.avg_alt_steady_state_error = RAdd(@, ev.avg_alt_steady_state_error),
           !.avg_max_alt_overshoot = RAdd(@, ev.max_alt_overshoot),
           !.avg_hdg_steady_state_error = RAdd(@, ev.avg_hdg_steady_state_error),
           !.max_hdg_overshoot = RMax(@, ev.max_hdg_overshoot),
           !.avg_time_fufillment =
               IF ev.max_man_time_mins # RZero
               THEN RAdd(@, RDiv(RDiv(time_first_c, ev.max_man_time_mins), Int2R(60)))
               ELSE @]

RECURSIVE BatchFirstLoop(_, _, _)
BatchFirstLoop(b, evs, indices) ==
    IF indices = <<>> THEN b
    ELSE BatchFirstLoop(BatchAccumulate(b, evs[Head(indices) + 1]), evs, Tail(indices))

RECURSIVE BatchSecondLoop(_, _, _)
BatchSecondLoop(b, evs, indices) ==
    IF indices = <<>> THEN b
    ELSE BatchSecondLoop(
            [b EXCEPT !.mean_abs_alt_steady_state_error =
                RAdd(@, RAbs(RSub(evs[Head(indices) + 1].avg_alt_steady_state_error,
                                  b.avg_alt_steady_state_error)))],
            evs, Tail(indices))

\* create_batch_eval for a non-empty index list
BatchEval(evs, indices) ==
    LET num_indices == Int2R(Len(indices))
        b1 == BatchFirstLoop(NewBatchEval, evs, indices)
        b2 == [b1 EXCEPT
                 !.avg_alt_steady_state_error = RDiv(@, num_indices),
                 !.avg_max_alt_overshoot = RDiv(@, num_indices),
                 !.avg_hdg_steady_state_error = RDiv(@, num_indices),
                 !.avg_time_fufillment = RDiv(@, num_indices)]
        b3 == BatchSecondLoop(b2, evs, indices)
    IN  [b3 EXCEPT !.mean_abs_alt_steady_state_error = RDiv(@, num_indices)]

RECURSIVE SeqsUpTo(_, _)
SeqsUpTo(S, n) ==
    IF n = 0 THEN {<<>>}
    ELSE LET shorter == SeqsUpTo(S, n - 1)
         IN  shorter \cup {Append(q, x) : q \in shorter, x \in S}

\* index lists a caller passes: positions of stored trials, counted from 0
IndexLists == SeqsUpTo(0..(Len(harness.evals) - 1), MaxIndexLen)

create_batch_eval(indices) ==
    /\ trial.phase \in {"idle", "finalized"}
    /\ batchResult' =
         IF indices = <<>>
         THEN [op |-> "create_batch_eval", indices |-> indices,
               raised |-> "ZeroDivisionError"]
         ELSE [op |-> "create_batch_eval", indices |-> indices, raised |-> "none",
               batch_evals |-> BatchEval(harness.evals, indices)]
    /\ UNCHANGED <<trial, haSim, harness, ticksRun>>

HANext ==
    \/ \E ac \in AltCases, hc \in HdgCases :
          \E a \in AltDraws(ac), h \in HdgDraws(hc) :
             Setup(ac, hc, a, h, FGAPInstance) /\ UNCHANGED <<pidVars, ciVars, aggVars, stepVars, rpmVars, copyVars, agentVars, btVars>>
    \/ Tick /\ UNCHANGED <<pidVars, ciVars, aggVars, stepVars, rpmVars, copyVars, agentVars, btVars>>
    \/ Finish /\ UNCHANGED <<pidVars, ciVars, aggVars, stepVars, rpmVars, copyVars, agentVars, btVars>>
    \/ sort_evals /\ UNCHANGED <<pidVars, ciVars, aggVars, stepVars, rpmVars, copyVars, agentVars, btVars>>
    \/ \E indices \in IndexLists :
          create_batch_eval(indices) /\ UNCHANGED <<pidVars, ciVars, aggVars, stepVars, rpmVars, copyVars, agentVars, btVars>>

\* ------------------------------------------------------------------------
\* The set-up of run_single_eval from its arguments (lines 92-155): the
\* format checks and the draw of the changes from the cases
\* ------------------------------------------------------------------------
AllAltCases ==
    {"ALT_HOLD", "CLB_L_200", "CLB_200_500", "CLB_G_500",
     "DSC_L_200", "DSC_200_500", "DSC_G_500"}
AllHdgCases == {"HDG_HOLD", "HDG_L_45", "HDG_45_90", "HDG_90_180"}
AllWindCases == {"CLM"}

\* random.uniform(a, b) is a + (b - a) * random(), u the value of random()
uniform(a, b, u) == RAdd(Int2R(a), RMul(Int2R(b - a), u))

\* values of random() and of random.choice([-1, 1])
RandomUnit == {RZero, <<1, 2>>, ROne}
RandomSign == {-1, 1}

\* a draw whose climb above 500 ft starts at the band below
AltChangeOfWideBand(alt_case, u) ==
    CASE alt_case = "ALT_HOLD" -> RZero
      [] alt_case = "CLB_L_200" -> uniform(20, 200, u)
      [] alt_case = "CLB_200_500" -> uniform(250, 550, u)
      [] alt_case = "CLB_G_500" -> uniform(550, 3000, u)
      [] alt_case = "DSC_L_200" -> RNeg(uniform(20, 200, u))
      [] alt_case = "DSC_200_500" -> RNeg(uniform(250, 550, u))
      [] alt_case = "DSC_G_500" -> RNeg(uniform(700, 3000, u))

\* match alt_case
AltChangeOf(alt_case, u) ==
    CASE alt_case = "ALT_HOLD" -> RZero
      [] alt_case = "CLB_L_200" -> uniform(20, 200, u)
      [] alt_case = "CLB_200_500" -> uniform(250, 550, u)
      [] alt_case = "CLB_G_500" -> uniform(700, 3000, u)
      [] alt_case = "DSC_L_200" -> RNeg(uniform(20, 200, u))
      [] alt_case = "DSC_200_500" -> RNeg(uniform(250, 550, u))
      [] alt_case = "DSC_G_500" -> RNeg(uniform(700, 3000, u))

\* match hdg_case
HdgChangeOf(hdg_case, u, c) ==
    CASE hdg_case = "HDG_HOLD" -> RZero
      [] hdg_case = "HDG_L_45" -> RMul(uniform(5, 45, u), Int2R(c))
      [] hdg_case = "HDG_45_90" -> RMul(uniform(45, 90, u), Int2R(c))
      [] hdg_case = "HDG_90_180" -> RMul(uniform(90, 180, u), Int2R(c))

\* objects a caller can pass as control_subsystem besides the aggregators:
\* one whose action returns a dict without reading the simulator, one that
\* returns a list without reading it, one that reads it and returns a
\* list, and one whose action does not take three arguments
OtherSubsystems ==
    {[kind |-> "ReturnsDict"], [kind |-> "ReturnsList"],
     [kind |-> "ReadsSimReturnsList"], [kind |-> "WrongSignature"]}

\* mock_control.action(None, 5000, 90) on a deep copy: what the try block sees
MockAction(control_subsystem) ==
    CASE control_subsystem.kind = "ReturnsDict" -> "dict"
      [] control_subsystem.kind = "ReturnsList" -> "list"
      [] control_subsystem.kind = "WrongSignature" -> "TypeError"
      [] OTHER -> "AttributeError"   \* sim.get_property on None

\* lines 96-104: AttributeError is passed over, TypeError is turned into an
\* AssertionError, and the assert's own AssertionError is not caught by
\* "except TypeError or AssertionError" and leaves the function as it is
MockCheck(control_subsystem) ==
    LET act == MockAction(control_subsystem)
    IN  CASE act = "AttributeError" -> "none"
          [] act = "TypeError" -> "AssertionError"
          [] act = "list" -> "AssertionError"
          [] OTHER -> "none"

\* run_single_eval up to the start of the Running loop
RunSetup(alt_case, hdg_case, wind_case, control_subsystem, ua, uh, c) ==
    LET raised ==
            IF alt_case \notin AllAltCases \/ hdg_case \notin AllHdgCases
               \/ wind_case \notin AllWindCases
            THEN "AssertionError"
            ELSE MockCheck(control_subsystem)
    IN  IF raised # "none"
        THEN /\ trial.phase = "idle"
             /\ trial' = [phase |-> "raised", raised |-> raised,
                          alt_case |-> alt_case, hdg_case |-> hdg_case,
                          control_subsystem |-> control_subsystem]
             /\ batchResult' = [op |-> "run_single_eval"]
             /\ UNCHANGED <<haSim, harness, ticksRun>>
        ELSE Setup(alt_case, hdg_case, AltChangeOf(alt_case, ua),
                   HdgChangeOf(hdg_case, uh, c), control_subsystem)

SetupNext ==
    \E alt_case \in AllAltCases \cup {"NOT_A_CASE"},
       hdg_case \in AllHdgCases \cup {"NOT_A_CASE"},
       wind_case \in AllWindCases \cup {"NOT_A_CASE"},
       control_subsystem \in {FGAPInstance, HAPIDControlSubsystem} \cup OtherSubsystems,
       ua \in RandomUnit, uh \in RandomUnit, c \in RandomSign :
          /\ RunSetup(alt_case, hdg_case, wind_case, control_subsystem, ua, uh, c)
          /\ UNCHANGED <<pidVars, ciVars, aggVars, stepVars, rpmVars, copyVars, agentVars, btVars>>

\* ------------------------------------------------------------------------
\* A HAFlightControlEval instance after a batch of trials, on which
\* sort_evals and create_batch_eval are called
\* ------------------------------------------------------------------------
MaxBatch == 2

\* what one finished trial left in evals, cases and initial_conditions: a
\* trial of the given altitude case and draw with no heading change
BatchTrial(alt_case, alt_change, min_as, max_as, ss_err, overshoot, contact_s, load) ==
    LET mins == MaxManeuverTimeMins(alt_change, RZero)
        max_steps == RAdd(RMul(RMul(mins, Int2R(60)), Int2R(InteractionFreq)),
                          Int2R(SteadyStateSeconds * InteractionFreq))
        ev == NewEval(min_as, mins, RDiv(RDiv(max_steps, Int2R(InteractionFreq)), Int2R(60)))
    IN  [ev |-> [ev EXCEPT !.max_airspeed = max_as,
                           !.avg_airspeed = Int2R(CruiseSpeedKts),
                           !.max_load_factor = load,
                           !.avg_load_factor = ROne,
                           !.avg_alt_steady_state_error = ss_err,
                           !.max_alt_overshoot = overshoot,
                           !.avg_hdg_steady_state_error = <<1, 2>>,
                           !.time_to_first_contact_s = contact_s],
         case |-> <<alt_case, "HDG_HOLD", "CLM">>,
         ics |-> [altitude_change_desired |-> alt_change,
                  heading_change_desired |-> RZero]]

\* finished trials: a clean 20 ft climb; the same with a steady-state error
\* in the same 50 ft bucket, on a tie between buckets, and in a higher
\* bucket; contacts at 6 s and 10 s and none at all against a budget of
\* 3.6 s; a stall with an overshoot and a load of 1.3; a hold trial (budget 0) with a contact and without
BatchTrials ==
    { BatchTrial("CLB_L_200", Int2R(20), Int2R(95), Int2R(105), Int2R(10), RZero, Int2R(2), ROne),
      BatchTrial("CLB_L_200", Int2R(20), Int2R(95), Int2R(105), Int2R(20), RZero, Int2R(2), ROne),
      BatchTrial("CLB_L_200", Int2R(20), Int2R(95), Int2R(105), Int2R(75), Int2R(20), Int2R(2), ROne),
      BatchTrial("CLB_L_200", Int2R(20), Int2R(95), Int2R(105), Int2R(10), RZero, Int2R(6), ROne),
      BatchTrial("CLB_L_200", Int2R(20), Int2R(95), Int2R(105), Int2R(10), RZero, Int2R(10), ROne),
      BatchTrial("CLB_L_200", Int2R(20), Int2R(95), Int2R(105), Int2R(60), RZero, RZero, ROne),
      BatchTrial("CLB_L_200", Int2R(20), Int2R(40), Int2R(105), Int2R(10), Int2R(30), Int2R(2), <<13, 10>>),
      BatchTrial("ALT_HOLD", RZero, Int2R(95), Int2R(105), Int2R(10), RZero, <<1, 5>>, ROne),
      BatchTrial("ALT_HOLD", RZero, Int2R(95), Int2R(105), Int2R(60), RZero, RZero, ROne) }

HarnessOf(trs) ==
    [evals |-> [i \in 1..Len(trs) |-> trs[i].ev],
     cases |-> [i \in 1..Len(trs) |-> trs[i].case],
     initial_conditions |-> [i \in 1..Len(trs) |-> trs[i].ics],
     sorted_indices |-> NoOut,
     aircraft |-> IF trs = <<>> THEN NoOut ELSE c172x]

BatchInit ==
    /\ harness \in {HarnessOf(trs) : trs \in SeqsUpTo(BatchTrials, MaxBatch)}
    /\ trial = NoTrial
    /\ haSim = [open |-> FALSE]
    /\ ticksRun = 0
    /\ batchResult = [op |-> "none"]

BatchNext ==
    \/ sort_evals /\ UNCHANGED <<pidVars, ciVars, aggVars, stepVars, rpmVars, copyVars, agentVars, btVars>>
    \/ \E indices \in IndexLists :
          create_batch_eval(indices) /\ UNCHANGED <<pidVars, ciVars, aggVars, stepVars, rpmVars, copyVars, agentVars, btVars>>

\* ------------------------------------------------------------------------
\* A PIDController driven on its own
\* ------------------------------------------------------------------------
KpSet == {Int2R(0), Int2R(1), Int2R(2)}
KiSet == {Int2R(0), Int2R(1)}
KdSet == {Int2R(0), Int2R(1)}
MeasSet == {Int2R(5), Int2R(12)}
SetpointSet == {Int2R(10)}
DtSet == {RZero, <<1, 2>>, ROne}

PIDInit ==
    /\ \E kp \in KpSet, ki \in KiSet, kd \in KdSet : pid = PIDController(kp, ki, kd)
    /\ fresh = NoCtl
    /\ pidOut = NoOut
    /\ freshOut = NoOut
    /\ pidCall = [op |-> "init"]
    /\ nCalls = 0
    /\ preReset = NoCtl

Compute(measurement, setpoint, dt) ==
    /\ nCalls < MaxCalls
    /\ LET r == PIDCompute(pid, measurement, setpoint, dt)
       IN  /\ pid' = r.ctl
           /\ pidOut' = r.out
    /\ IF fresh = NoCtl
       THEN UNCHANGED <<fresh, freshOut>>
       ELSE LET f == PIDCompute(fresh, measurement, setpoint, dt)
            IN  /\ fresh' = f.ctl
                /\ freshOut' = f.out
    /\ pidCall' = [op |-> "compute", measurement |-> measurement,
                   setpoint |-> setpoint, dt |-> dt]
    /\ nCalls' = nCalls + 1
    /\ UNCHANGED preReset

Reset ==
    /\ nCalls < MaxCalls
    /\ pid' = PIDReset(pid)
    /\ fresh' = PIDController(pid.kp, pid.ki, pid.kd)
    /\ pidOut' = NoOut
    /\ freshOut' = NoOut
    /\ pidCall' = [op |-> "reset"]
    /\ nCalls' = nCalls + 1
    /\ preReset' = pid

PIDNext ==
    \/ \E m \in MeasSet, s \in SetpointSet, dt \in DtSet :
          Compute(m, s, dt) /\ UNCHANGED <<ciVars, aggVars, haVars, stepVars, rpmVars, copyVars, agentVars, btVars>>
    \/ Reset /\ UNCHANGED <<ciVars, aggVars, haVars, stepVars, rpmVars, copyVars, agentVars, btVars>>

\* the other components at rest
PIDIdle ==
    /\ pid = PIDController(RZero, RZero, RZero)
    /\ fresh = NoCtl
    /\ pidOut = NoOut
    /\ freshOut = NoOut
    /\ pidCall = [op |-> "init"]
    /\ nCalls = 0
    /\ preReset = NoCtl

CIIdle ==
    /\ CIInit
    /\ sim = [alt |-> Int2R(5000), hdg |-> Int2R(10), cas |-> Int2R(100),
              load_factor |-> ROne]

\* ------------------------------------------------------------------------
\* SimulationInterface.step (simulation_interface.py)
\* ------------------------------------------------------------------------
MaxSteps == 1

\* the control_agent_interaction_freq an interface is constructed with
StepFreqs == {5, 7, 60}

\* the simulator properties a command map writes, and their commands
StepProps == {"throttle_cmd", "mixture_cmd", TrimKey}
StepCommandsOf(prop) == IF prop = TrimKey THEN {RZero} ELSE {RZero, ROne}
StepPairs == {<<p, c>> : p \in StepProps, c \in {RZero, ROne}}

\* a command map in its iteration order: <<property, command>> pairs
StepActionMaps ==
    {a \in SeqsUpTo(StepPairs, Cardinality(StepProps)) :
        /\ \A i \in 1..Len(a) : a[i][2] \in StepCommandsOf(a[i][1])
        /\ \A i, j \in 1..Len(a) : i # j => a[i][1] # a[j][1]}

PropsOf(actions) == {actions[i][1] : i \in 1..Len(actions)}

\* the property values of a fresh engine session
InitialSim ==
    [p \in StepProps |-> IF p = TrimKey THEN Int2R(-1) ELSE Rat(1, 2)]

SimulationInterface(control_agent_interaction_freq) ==
    [sim |-> InitialSim,
     sim_steps_per_agent_step |-> JSBSIM_DT_HZ \div control_agent_interaction_freq,
     control_agent_interaction_freq |-> control_agent_interaction_freq,
     runs |-> 0, observations |-> 0, trim_failed |-> 0, steps |-> 0]

\* self.sim[prop] = command: the engine either takes the value or raises a
\* trim failure, with the value stored or not
SimSetItem(props, prop, command, fails, stored) ==
    [sim |-> IF ~fails \/ stored THEN Put(props, prop, command) ELSE props,
     raised |-> fails]

\* for _ in range(n): self.sim.run()
RECURSIVE RunEngine(_, _)
RunEngine(runs, n) == IF n = 0 THEN runs ELSE RunEngine(runs + 1, n - 1)

RECURSIVE ApplyCommands(_, _, _, _)
\* a command loop without the except clause: the first trim failure leaves it
ApplyCommandsNoExcept(w, actions, failing, stored) ==
    IF actions = <<>> THEN w
    ELSE LET r == SimSetItem(w.sim, Head(actions)[1], Head(actions)[2],
                             Head(actions)[1] \in failing, stored)
         IN  IF r.raised
             THEN [sim |-> r.sim, printed |-> w.printed, raised |-> TRUE]
             ELSE ApplyCommands([w EXCEPT !.sim = r.sim], Tail(actions),
                                failing, stored)

\* the command loop: each write in its own try, a trim failure printed
ApplyCommands(w, actions, failing, stored) ==
    IF actions = <<>> THEN w
    ELSE LET r == SimSetItem(w.sim, Head(actions)[1], Head(actions)[2],
                             Head(actions)[1] \in failing, stored)
         IN  ApplyCommands([w EXCEPT !.sim = r.sim,
                                     !.printed = IF r.raised THEN @ + 1 ELSE @],
                           Tail(actions), failing, stored)

\* step(actions), render_mode None; failing are the properties whose write
\* the engine answers with a trim failure
step(actions, failing, stored) ==
    /\ iface.steps < MaxSteps
    /\ LET w == ApplyCommands([sim |-> iface.sim, printed |-> 0, raised |-> FALSE],
                              actions, failing, stored)
           ob == w.sim
       IN  IF w.raised
           THEN /\ iface' = [iface EXCEPT !.sim = w.sim, !.steps = @ + 1,
                                          !.trim_failed = @ + w.printed]
                /\ stepResult' = [op |-> "step", raised |-> "TrimFailureError",
                                  actions |-> actions, failing |-> failing,
                                  returned |-> EmptyMap,
                                  printed |-> w.printed,
                                  runs_before |-> iface.runs]
           ELSE /\ iface' = [iface EXCEPT
                               !.sim = w.sim,
                               !.observations = @ + 1,
                               !.runs = RunEngine(@, iface.sim_steps_per_agent_step),
                               !.trim_failed = @ + w.printed,
                               !.steps = @ + 1]
                /\ stepResult' = [op |-> "step", raised |-> "none",
                                  actions |-> actions, failing |-> failing,
                                  returned |-> ob,
                                  printed |-> w.printed,
                                  runs_before |-> iface.runs]

StepInit ==
    /\ \E f \in StepFreqs : iface = SimulationInterface(f)
    /\ stepResult = [op |-> "init"]

StepIdle ==
    /\ iface = SimulationInterface(InteractionFreq)
    /\ stepResult = [op |-> "init"]

StepNext ==
    \E actions \in StepActionMaps :
      \E failing \in SUBSET PropsOf(actions) :
        \E stored \in (IF failing = {} THEN {FALSE} ELSE BOOLEAN) :
          /\ step(actions, failing, stored)
          /\ UNCHANGED <<pidVars, ciVars, aggVars, haVars, rpmVars, copyVars, agentVars, btVars>>

\* ------------------------------------------------------------------------
\* cessna_rpm_to_throttle_cmd called on its own
\* ------------------------------------------------------------------------
MaxRpmCalls == 2

\* the tabulated RPMs, the midpoints of the table's intervals, values off
\* both ends of the table, and the floats that are not rationals
RpmInputs ==
    {Int2R(rpms[i]) : i \in 1..Len(rpms)}
    \cup {Rat(rpms[i] + rpms[i + 1], 2) : i \in 1..(Len(rpms) - 1)}
    \cup {Int2R(0), Int2R(rpms[1] - 1), Int2R(rpms[Len(rpms)] + 1), Int2R(3000)}
    \cup {NaN, PosInf, NegInf}

ThrottleCall(rpm) ==
    /\ Len(throttleCalls) < MaxRpmCalls
    /\ throttleCalls' = Append(throttleCalls,
                               [rpm |-> rpm,
                                returned |-> cessna_rpm_to_throttle_cmd(rpm)])

RpmInit == throttleCalls = <<>>

RpmIdle == throttleCalls = <<>>

RpmNext ==
    \E rpm \in RpmInputs :
        ThrottleCall(rpm) /\ UNCHANGED <<pidVars, ciVars, aggVars, haVars, stepVars, copyVars, agentVars, btVars>>

\* ------------------------------------------------------------------------
\* SimulationInterface.__deepcopy__ (simulation_interface.py)
\* ------------------------------------------------------------------------
MaxCopyOps == 3

\* the properties of the aircraft's motion that the engine integrates
DynProps ==
    {"altitude_sl_ft", "lng_geoc_deg", "lat_geod_deg", "u_fps", "v_fps", "w_fps",
     "p_radps", "q_radps", "r_radps", "heading_deg", "pitch_rad", "roll_rad",
     "flight_path", "cas_kts", "angle_of_attack", "sideslip_deg"}

\* the initial-condition properties a session is started from
ICProps ==
    {"initial_altitude_msl_ft", "initial_terrain_altitude_ft",
     "initial_longitude_geoc_deg", "initial_latitude_geod_deg",
     "initial_u_fps", "initial_v_fps", "initial_w_fps",
     "initial_p_radps", "initial_q_radps", "initial_r_radps",
     "initial_heading_deg", "initial_wind_heading", "initial_wind_speed",
     "initial_pitch_deg", "initial_roll_deg", "initial_flight_path",
     "ic/vc-kts", "ic/alpha-deg", "ic/beta-deg", "initial_roc_fpm"}

\* An angle in radians is kept as its multiple of pi, so x / pi * 180 is
\* the multiplication by 180 and the way back the division by 180.
RadToDeg(x) == RMul(x, Int2R(180))
DegToRad(x) == RDiv(x, Int2R(180))

\* ics of __deepcopy__: <<initial condition, property read, conversion>>
DeepcopyICS ==
    {<<"initial_altitude_msl_ft", "altitude_sl_ft", "same">>,
     <<"initial_terrain_altitude_ft", "initial_terrain_altitude_ft", "same">>,
     <<"initial_longitude_geoc_deg", "lng_geoc_deg", "same">>,
     <<"initial_latitude_geod_deg", "lat_geod_deg", "same">>,
     <<"initial_u_fps", "u_fps", "same">>,
     <<"initial_v_fps", "v_fps", "same">>,
     <<"initial_w_fps", "w_fps", "same">>,
     <<"initial_p_radps", "p_radps", "same">>,
     <<"initial_q_radps", "q_radps", "same">>,
     <<"initial_r_radps", "initial_r_radps", "same">>,
     <<"initial_heading_deg", "heading_deg", "same">>,
     <<"initial_wind_heading", "initial_wind_heading", "same">>,
     <<"initial_wind_speed", "initial_wind_speed", "same">>,
     <<"initial_pitch_deg", "pitch_rad", "rad_to_deg">>,
     <<"initial_roll_deg", "roll_rad", "rad_to_deg">>,
     <<"initial_flight_path", "flight_path", "same">>,
     <<"ic/vc-kts", "cas_kts", "same">>,
     <<"ic/alpha-deg", "angle_of_attack", "same">>,
     <<"ic/beta-deg", "sideslip_deg", "same">>}

Converted(v, conversion) == IF conversion = "rad_to_deg" THEN RadToDeg(v) ELSE v

\* the dict ics built from the reads of a session's properties
SnapshotICS(props) ==
    [ic \in {t[1] : t \in DeepcopyICS} |->
        LET t == CHOOSE x \in DeepcopyICS : x[1] = ic
        IN  Converted(props[t[2]], t[3])]

default_initial_conditions ==
    [ic \in {"initial_altitude_msl_ft", "initial_terrain_altitude_ft",
             "initial_longitude_geoc_deg", "initial_latitude_geod_deg",
             "initial_u_fps", "initial_v_fps", "initial_w_fps",
             "initial_p_radps", "initial_q_radps", "initial_r_radps",
             "initial_roc_fpm", "initial_heading_deg"} |->
        CASE ic = "initial_altitude_msl_ft" -> Int2R(5000)
          [] ic = "initial_terrain_altitude_ft" -> Rat(1, 100000000)
          [] ic = "initial_longitude_geoc_deg" -> Rat(-23273, 10000)
          [] ic = "initial_latitude_geod_deg" -> Rat(513781, 10000)
          [] OTHER -> RZero]

\* SimulationInterface.__init__: the defaults, the cruise speed, then the
\* caller's initial conditions over them; no session yet
NewInterface(initial_conditions, control_agent_interaction_freq) ==
    [sim |-> 0,
     init_conditions |->
        Update(Put(default_initial_conditions, "initial_u_fps",
                   RMul(c172x.cruise_speed_kts, Rat(16878, 10000))),
               initial_conditions),
     control_agent_interaction_freq |-> control_agent_interaction_freq]

\* the property of the aircraft's motion an initial condition sets
ICTarget(ic) ==
    CASE ic = "initial_altitude_msl_ft" -> "altitude_sl_ft"
      [] ic = "initial_longitude_geoc_deg" -> "lng_geoc_deg"
      [] ic = "initial_latitude_geod_deg" -> "lat_geod_deg"
      [] ic = "initial_u_fps" -> "u_fps"
      [] ic = "initial_v_fps" -> "v_fps"
      [] ic = "initial_w_fps" -> "w_fps"
      [] ic = "initial_p_radps" -> "p_radps"
      [] ic = "initial_q_radps" -> "q_radps"
      [] ic = "initial_r_radps" -> "r_radps"
      [] ic = "initial_heading_deg" -> "heading_deg"
      [] ic = "initial_pitch_deg" -> "pitch_rad"
      [] ic = "initial_roll_deg" -> "roll_rad"
      [] ic = "initial_flight_path" -> "flight_path"
      [] ic = "ic/vc-kts" -> "cas_kts"
      [] ic = "ic/alpha-deg" -> "angle_of_attack"
      [] ic = "ic/beta-deg" -> "sideslip_deg"
      [] OTHER -> "none"

\* Simulation(init_conditions=...): a session of its own, at time 0, whose
\* initial-condition properties are the ones given and whose motion starts
\* from them
NewSession(init_conditions) ==
    LET icv(ic) == IF ic \in DOMAIN init_conditions THEN init_conditions[ic] ELSE RZero
        ofDyn(p) == CHOOSE ic \in ICProps : ICTarget(ic) = p
    IN  [time |-> 0,
         props |-> [p \in DynProps \cup ICProps |->
                      IF p \in ICProps THEN icv(p)
                      ELSE IF p \in {"pitch_rad", "roll_rad"} THEN DegToRad(icv(ofDyn(p)))
                      ELSE icv(ofDyn(p))]]

\* initialize() of an interface without a session: the new session is
\* appended to the sessions that exist
InitializeNew(h, interface) ==
    [heap |-> Append(h, NewSession(interface.init_conditions)),
     interface |-> [interface EXCEPT !.sim = Len(h) + 1]]

\* a copy that keeps the reference to the session of its source
deepcopy_shared(h, self) ==
    [heap |-> h,
     interface |-> [NewInterface(SnapshotICS(h[self.sim].props),
                                 self.control_agent_interaction_freq)
                    EXCEPT !.sim = self.sim]]

\* __deepcopy__(self, memo): read the properties, construct, initialize
deepcopy(h, self) ==
    InitializeNew(h, NewInterface(SnapshotICS(h[self.sim].props),
                                  self.control_agent_interaction_freq))

\* the motions the engine can leave an aircraft in after a step
FlightIds == {1, 2}
FlightState(k) ==
    [p \in DynProps |->
        CASE p = "altitude_sl_ft" -> Int2R(5000 + 100 * k)
          [] p \in {"pitch_rad", "roll_rad"} -> Rat(k, 36)
          [] p = "r_radps" -> Rat(k, 10)
          [] p = "heading_deg" -> Int2R(30 * k)
          [] p = "cas_kts" -> Int2R(90 + k)
          [] OTHER -> Int2R(k)]

NoInterface == [sim |-> 0]

Interfaces == {"original", "copied"}
InterfaceOf(which) == IF which = "original" THEN original ELSE copied

CopyOps == IF copyOp.op = "init" THEN 0 ELSE copyOp.n

\* interface.sim[prop] = value
CopyWrite(which, prop, value) ==
    /\ CopyOps < MaxCopyOps
    /\ InterfaceOf(which).sim # 0
    /\ heap' = [heap EXCEPT ![InterfaceOf(which).sim].props[prop] = value]
    /\ copyOp' = [op |-> "write", on |-> which, n |-> CopyOps + 1]
    /\ UNCHANGED <<original, copied>>

\* interface.step(actions): the session's engine moves its aircraft
CopyStep(which, k) ==
    /\ CopyOps < MaxCopyOps
    /\ InterfaceOf(which).sim # 0
    /\ heap' = [heap EXCEPT ![InterfaceOf(which).sim] =
                  [time |-> @.time + 1,
                   props |-> [p \in DOMAIN @.props |->
                                IF p \in DynProps THEN FlightState(k)[p]
                                ELSE @.props[p]]]]
    /\ copyOp' = [op |-> "step", on |-> which, n |-> CopyOps + 1]
    /\ UNCHANGED <<original, copied>>

\* copied = copy.deepcopy(original)
CopyDeepcopy ==
    /\ CopyOps < MaxCopyOps
    /\ copied = NoInterface
    /\ LET r == deepcopy(heap, original)
       IN  /\ heap' = r.heap
           /\ copied' = r.interface
    /\ copyOp' = [op |-> "deepcopy", on |-> "original", n |-> CopyOps + 1]
    /\ UNCHANGED original

CopyInit ==
    /\ LET r == InitializeNew(<<>>, NewInterface(EmptyMap, InteractionFreq))
       IN  heap = r.heap /\ original = r.interface
    /\ copied = NoInterface
    /\ copyOp = [op |-> "init"]

CopyIdle == CopyInit

CopyWrites == {<<"altitude_sl_ft", Int2R(10000)>>, <<"r_radps", Rat(1, 2)>>}

CopyNext ==
    \/ \E which \in Interfaces, w \in CopyWrites :
          /\ CopyWrite(which, w[1], w[2])
          /\ UNCHANGED <<pidVars, ciVars, aggVars, haVars, stepVars, rpmVars, agentVars, btVars>>
    \/ \E which \in Interfaces, k \in FlightIds :
          /\ CopyStep(which, k)
          /\ UNCHANGED <<pidVars, ciVars, aggVars, haVars, stepVars, rpmVars, agentVars, btVars>>
    \/ CopyDeepcopy /\ UNCHANGED <<pidVars, ciVars, aggVars, haVars, stepVars, rpmVars, agentVars, btVars>>

\* ------------------------------------------------------------------------
\* OpenRouterAgent and the run loop of InstructionFollowing
\* ------------------------------------------------------------------------
MAX_CALLS == 5
MaxScenarioTicks == 7

\* requests counts the chat completions sent to the provider
OpenRouterAgent == [num_calls |-> 0, requests |-> 0, conversation |-> 0]

\* the decisions a model response parses to
Responses == {"turn", "climb", "hold"}

\* Python False, as a decision
NoDecision == "False"

\* get_decision: the counter, the request, the parse, then the limit
get_decision(a, response) ==
    LET called == [a EXCEPT !.num_calls = @ + 1,
                            !.requests = @ + 1,
                            !.conversation = @ + 1]
    IN  IF called.num_calls > MAX_CALLS
        THEN [agent |-> called, returned |-> NoDecision]
        ELSE [agent |-> [called EXCEPT !.conversation = @ + 1], returned |-> response]

\* start_environment installs the initial instruction
InstructionFollowing ==
    [phase |-> "running", ticks |-> 0, first_intruction_received |-> FALSE,
     installed |-> <<"initial">>, decisions |-> <<>>]

\* one iteration of the loop of run(): pastTen is sim_time_s > 10, callback
\* the outcome of callback_ADM_algorithm
RunIteration(pastTen, callback, r1, r2) ==
    /\ scenario.phase = "running"
    /\ scenario.ticks < MaxScenarioTicks
    /\ LET first == pastTen /\ ~scenario.first_intruction_received
           d1 == get_decision(adm, r1)
           a1 == IF first THEN d1.agent ELSE adm
           s1 == IF first
                 THEN [scenario EXCEPT !.installed = Append(@, d1.returned),
                                       !.decisions = Append(@, d1.returned),
                                       !.first_intruction_received = TRUE]
                 ELSE scenario
           d2 == get_decision(a1, r2)
       IN  IF ~callback
           THEN /\ adm' = a1
                /\ scenario' = [s1 EXCEPT !.ticks = @ + 1]
           ELSE /\ adm' = d2.agent
                /\ scenario' =
                     IF d2.returned = NoDecision
                     THEN [s1 EXCEPT !.decisions = Append(@, d2.returned),
                                     !.phase = "stopped"]
                     ELSE [s1 EXCEPT !.installed = Append(@, d2.returned),
                                     !.decisions = Append(@, d2.returned),
                                     !.ticks = @ + 1]

\* is_terminated() or is_truncated() ends the loop
RunEnds ==
    /\ scenario.phase = "running"
    /\ scenario' = [scenario EXCEPT !.phase = "ended"]
    /\ UNCHANGED adm

AgentInit ==
    /\ adm = OpenRouterAgent
    /\ scenario = InstructionFollowing

AgentIdle == AgentInit

AgentNext ==
    \/ \E pastTen \in BOOLEAN, callback \in BOOLEAN, r1 \in Responses, r2 \in Responses :
          /\ RunIteration(pastTen, callback, r1, r2)
          /\ UNCHANGED <<pidVars, ciVars, aggVars, haVars, stepVars, rpmVars, copyVars, btVars>>
    \/ RunEnds /\ UNCHANGED <<pidVars, ciVars, aggVars, haVars, stepVars, rpmVars, copyVars, btVars>>

\* ------------------------------------------------------------------------
\* batch_test of the three evaluation harnesses
\* ------------------------------------------------------------------------
MaxTrialTicks == 2

\* the harness and the control subsystem its caller hands to batch_test
BatchTestSubjects ==
    {<<"HA", HAPIDControlSubsystem>>, <<"HA", FGAPInstance>>,
     <<"RP", RPPIDControlSubsystem>>,
     <<"PO", PowerOffControlSubsystemDiffPID>>,
     <<"PO", PowerOffControlSubsystemRawPID>>}

NumTrialsSet == {1, 2}
NumCasesSet == {1, 2}

\* the object as its constructor leaves it
FreshSubsystem(kind) == CHOOSE a \in Aggregators : a.kind = kind

\* hasattr(control_subsystem, "reset")
HasReset(st) == st.kind = "PODiff"

\* copy.deepcopy of a control subsystem: an object of its own, equal in value
DeepcopySubsystem(st) == st

\* the object run_single_eval drives: the deep copy that batch_test makes
\* for the trial, or the caller's own object
TrialObject(h, caller) ==
    IF h \in {"HA", "RP"}
    THEN [shared |-> FALSE, driven |-> DeepcopySubsystem(caller)]
    ELSE [shared |-> TRUE, driven |-> caller]

\* the simulator of a trial at its tick n
TrialSim(n, cas) ==
    [AggSimInit EXCEPT !.time = Rat(n, InteractionFreq), !.cas = cas]

\* the next iteration of "for i in range(num_trials)", entering the next
\* case when the trials of this one are over
BTStartTrial ==
    /\ bt.phase = "between"
    /\ LET newCase == bt.trial = 0
           needsReset == bt.harness = "PO" /\ newCase
       IN  IF needsReset /\ ~HasReset(bt.caller)
           THEN bt' = [bt EXCEPT !.phase = "raised"]
           ELSE LET caller == IF needsReset THEN PowerOffDiffReset(bt.caller)
                              ELSE bt.caller
                    obj == TrialObject(bt.harness, caller)
                IN  bt' = [bt EXCEPT !.phase = "trial", !.caller = caller,
                                     !.shared = obj.shared, !.driven = obj.driven,
                                     !.ticks = 0, !.first_actions = EmptyMap]

\* control_subsystem.action(sim, ...) in the loop of run_single_eval
BTTick(cas, des1) ==
    /\ bt.phase = "trial"
    /\ bt.ticks < MaxTrialTicks
    /\ LET r == AggregatorAction(bt.driven, TrialSim(bt.ticks, cas), des1, Int2R(90))
       IN  bt' = [bt EXCEPT !.driven = r.st,
                            !.caller = IF bt.shared THEN r.st ELSE @,
                            !.ticks = @ + 1,
                            !.first_actions = IF bt.ticks = 0 THEN r.actions ELSE @]

\* run_single_eval returns
BTEndTrial ==
    /\ bt.phase = "trial"
    /\ bt.ticks >= 1
    /\ LET lastTrial == bt.trial + 1 = bt.num_trials
           lastCase == bt.case + 1 = bt.num_cases
       IN  bt' = [bt EXCEPT !.phase = IF lastTrial /\ lastCase THEN "done" ELSE "between",
                            !.trial = IF lastTrial THEN 0 ELSE @ + 1,
                            !.case = IF lastTrial THEN @ + 1 ELSE @,
                            !.trials_run = @ + 1]

BatchTestOf(subject, num_trials, num_cases) ==
    [harness |-> subject[1], caller |-> subject[2], num_trials |-> num_trials,
     num_cases |-> num_cases, case |-> 0, trial |-> 0, trials_run |-> 0,
     phase |-> "between", shared |-> FALSE, driven |-> subject[2], ticks |-> 0,
     first_actions |-> EmptyMap]

BatchTestInit ==
    \E subject \in BatchTestSubjects, n \in NumTrialsSet, c \in NumCasesSet :
        bt = BatchTestOf(subject, n, c)

BatchTestIdle == bt = BatchTestOf(<<"HA", FGAPInstance>>, 1, 1)

BatchTestNext ==
    \/ BTStartTrial
         /\ UNCHANGED <<pidVars, ciVars, aggVars, haVars, stepVars, rpmVars, copyVars, agentVars>>
    \/ \E cas \in AggCasSet, des1 \in Des1Set(bt.driven.kind) :
          /\ BTTick(cas, des1)
          /\ UNCHANGED <<pidVars, ciVars, aggVars, haVars, stepVars, rpmVars, copyVars, agentVars>>
    \/ BTEndTrial
         /\ UNCHANGED <<pidVars, ciVars, aggVars, haVars, stepVars, rpmVars, copyVars, agentVars>>

InitPID == PIDInit /\ CIIdle /\ AggIdle /\ HAInit /\ StepIdle /\ RpmIdle /\ CopyIdle /\ AgentIdle /\ BatchTestIdle

SpecPID == InitPID /\ [][PIDNext]_vars

InitCI == CIInit /\ PIDIdle /\ AggIdle /\ HAInit /\ StepIdle /\ RpmIdle /\ CopyIdle /\ AgentIdle /\ BatchTestIdle

SpecCI == InitCI /\ [][CINext]_vars

InitAgg == AggInit /\ PIDIdle /\ CIIdle /\ HAInit /\ StepIdle /\ RpmIdle /\ CopyIdle /\ AgentIdle /\ BatchTestIdle

SpecAgg == InitAgg /\ [][AggNext]_vars

InitHA == HAInit /\ PIDIdle /\ CIIdle /\ AggIdle /\ StepIdle /\ RpmIdle /\ CopyIdle /\ AgentIdle /\ BatchTestIdle

SpecHA == InitHA /\ [][HANext]_vars

SpecSetup == InitHA /\ [][SetupNext]_vars

InitBatch == BatchInit /\ PIDIdle /\ CIIdle /\ AggIdle /\ StepIdle /\ RpmIdle /\ CopyIdle /\ AgentIdle /\ BatchTestIdle

SpecBatch == InitBatch /\ [][BatchNext]_vars

InitStep == StepInit /\ PIDIdle /\ CIIdle /\ AggIdle /\ HAInit /\ RpmIdle /\ CopyIdle /\ AgentIdle /\ BatchTestIdle

SpecStep == InitStep /\ [][StepNext]_vars

InitRpm == RpmInit /\ PIDIdle /\ CIIdle /\ AggIdle /\ HAInit /\ StepIdle /\ CopyIdle /\ AgentIdle /\ BatchTestIdle

SpecRpm == InitRpm /\ [][RpmNext]_vars

InitCopy == CopyInit /\ PIDIdle /\ CIIdle /\ AggIdle /\ HAInit /\ StepIdle /\ RpmIdle /\ AgentIdle /\ BatchTestIdle

SpecCopy == InitCopy /\ [][CopyNext]_vars

InitAgent == AgentInit /\ PIDIdle /\ CIIdle /\ AggIdle /\ HAInit /\ StepIdle /\ RpmIdle /\ CopyIdle /\ BatchTestIdle

SpecAgent == InitAgent /\ [][AgentNext]_vars

InitBatchTest == BatchTestInit /\ PIDIdle /\ CIIdle /\ AggIdle /\ HAInit /\ StepIdle /\ RpmIdle /\ CopyIdle /\ AgentIdle

SpecBatchTest == InitBatchTest /\ [][BatchTestNext]_vars

\* A step that is a compute call on pid
IsComputeStep == pidCall'.op = "compute" /\ nCalls' = nCalls + 1

\* C1: every compute adds error*dt to the integral, with error = setpoint -
\* measurement, takes derivative = (error - last_error)/dt when dt # 0 and 0
\* when dt = 0, and returns kp*error + ki*integral + kd*derivative; with
\* kp = 1, ki = 0, kd = 0 it returns setpoint - measurement.
C1_ComputeFormula ==
    [][IsComputeStep =>
        LET e == RSub(pidCall'.setpoint, pidCall'.measurement)
            dt == pidCall'.dt
            d == IF dt = RZero THEN RZero
                 ELSE RDiv(RSub(e, pid.last_error), dt)
        IN  /\ pid'.integral = RAdd(pid.integral, RMul(e, dt))
            /\ pidOut' = RAdd(RAdd(RMul(pid.kp, e), RMul(pid.ki, pid'.integral)),
                              RMul(pid.kd, d))
            /\ (pid.kp = ROne /\ pid.ki = RZero /\ pid.kd = RZero) => pidOut' = e
      ]_vars

C1_Witness ==
    /\ pidCall.op = "compute"
    /\ pidCall.dt = <<1, 2>>
    /\ pid.ki = ROne
    /\ pid.kd = ROne
    /\ nCalls >= 2
    /\ pid.integral # RMul(RSub(pidCall.setpoint, pidCall.measurement), pidCall.dt)
    /\ pidOut # RZero

\* C2: after every compute call the stored last_error equals the error
\* (setpoint - measurement) of that call.
C2_LastErrorUpdated ==
    [][IsComputeStep =>
        pid'.last_error = RSub(pidCall'.setpoint, pidCall'.measurement)]_vars

\* C3: reset() zeroes the integral and last_error and keeps the gains, and
\* every compute after it returns what a freshly constructed controller
\* with the same gains returns for the same inputs.
C3_ResetEqualsFresh ==
    /\ pidCall.op = "reset" =>
          /\ pid.integral = RZero
          /\ pid.last_error = RZero
          /\ <<pid.kp, pid.ki, pid.kd>> = <<preReset.kp, preReset.ki, preReset.kd>>
    /\ fresh # NoCtl =>
          /\ pid = fresh
          /\ pidOut = freshOut

C3_Witness ==
    /\ fresh # NoCtl
    /\ preReset.integral # RZero
    /\ pidCall.op = "compute"
    /\ pid.ki = ROne
    /\ pid.integral # RZero
    /\ pidOut # RZero

\* the last call was an action() that returned a command map
ActionReturned == ciResult.op = "action" /\ ciResult.raised = "none"

CurrentCI ==
    IF HasKey(current_instruction, "control interface")
    THEN current_instruction["control interface"] ELSE EmptyMap

\* C4: in every command map action() returns, each property named by a
\* recognised manual command carries the manual value (throttle through
\* the RPM table, mixture as given), whatever the heading/altitude and
\* wings-level subsystems wrote for it on the same tick.
C4_ManualOverridesAutopilot ==
    (ActionReturned /\ HasKey(current_instruction, "manual")) =>
        LET manual == current_instruction["manual"]
        IN  /\ HasKey(manual, "throttle") =>
                 /\ HasKey(ciResult.actions, "throttle_cmd")
                 /\ ciResult.actions["throttle_cmd"] =
                        cessna_rpm_to_throttle_cmd(manual["throttle"])
            /\ HasKey(manual, "mixture") =>
                 /\ HasKey(ciResult.actions, "mixture_cmd")
                 /\ ciResult.actions["mixture_cmd"] = manual["mixture"]

C4_Witness ==
    /\ ActionReturned
    /\ HasKey(current_instruction, "manual")
    /\ HasKey(current_instruction["manual"], "throttle")
    /\ HasKey(current_instruction["manual"], "mixture")
    /\ ciResult.ha["throttle_cmd"] # ciResult.actions["throttle_cmd"]
    /\ ciResult.ha["mixture_cmd"] # ciResult.actions["mixture_cmd"]

\* C5: every command map action() returns contains the straight-and-level
\* armed property; its value is the instruction's "wings level" value when
\* the control-interface section has that key and 0 when it does not.
C5_WingsLevelAlwaysWritten ==
    ActionReturned =>
        /\ HasKey(ciResult.actions, "ap_hold_straight_and_level")
        /\ ciResult.actions["ap_hold_straight_and_level"] =
               IF HasKey(CurrentCI, "wings level") THEN CurrentCI["wings level"]
               ELSE RZero

C5_Witness ==
    /\ ActionReturned
    /\ ~HasKey(CurrentCI, "wings level")
    /\ HasKey(current_instruction, "manual")
    /\ ciResult.actions["ap_hold_straight_and_level"] = RZero
    /\ \E i \in 1..Len(instructions) :
          /\ HasKey(instructions[i], "control interface")
          /\ HasKey(instructions[i]["control interface"], "wings level")

\* C6: for a current instruction that lacks a desired altitude and/or a
\* desired heading, action() returns a command map without raising, in which
\* the setpoint of exactly the missing axis is the simulator's current value.
C6_MissingAxisHoldsCurrent ==
    (ciResult.op = "action"
        /\ (~HasKey(CurrentCI, "altitude") \/ ~HasKey(CurrentCI, "heading"))) =>
        /\ ciResult.raised = "none"
        /\ ciResult.actions["ap_altitude_setpoint"] =
               IF HasKey(CurrentCI, "altitude") THEN CurrentCI["altitude"] ELSE sim.alt
        /\ ciResult.actions["ap_heading_setpoint"] =
               IF HasKey(CurrentCI, "heading") THEN RMod(CurrentCI["heading"], 360)
               ELSE sim.hdg

\* C7: set_instruction never raises, whatever calls came before it and
\* whatever keys the instruction has.
C7_SetInstructionNeverRaises ==
    ciResult.op = "set_instruction" => ciResult.raised = "none"

\* the last call on the aggregator was an action() that returned a map
AggReturned == aggResult.op = "action" /\ aggResult.raised = "none"

\* C8 (as stated): the one-shot command "simulation/do_simple_trim" = 0 is
\* in the command map of the first action() call of an aggregator instance's
\* lifetime and in the command map of no other action() call.
C8_TrimOnFirstCallOnly ==
    AggReturned =>
        /\ HasKey(aggResult.actions, TrimKey) <=> aggCalls = 1
        /\ HasKey(aggResult.actions, TrimKey) => aggResult.actions[TrimKey] = RZero

\* C8 (amended): on the four aggregators that emit it, the trim command = 0
\* is in exactly the command maps of the first action() call that returns
\* after construction or after the latest reset(); FGAPControlSubsystem
\* never emits it.
C8_TrimOnFirstReturnSinceStart ==
    AggReturned =>
        /\ HasKey(aggResult.actions, TrimKey) <=>
               (agg.kind # "FGAP" /\ aggReturns = 1)
        /\ HasKey(aggResult.actions, TrimKey) => aggResult.actions[TrimKey] = RZero

C8_Witness ==
    /\ AggReturned
    /\ agg.kind = "PODiff"
    /\ aggResets = 1
    /\ aggCalls >= 2
    /\ HasKey(aggResult.actions, TrimKey)

\* the step budget of the trial, from the drawn changes:
\* max(|alt_change|/500, |hdg_change|/180) * 1.5 * 60 * 5 + 90 * 5
StepBudget ==
    RAdd(RMul(RMul(RMul(RMax(RDiv(RAbs(trial.alt_change), Int2R(500)),
                             RDiv(RAbs(trial.hdg_change), Int2R(180))),
                        <<3, 2>>), Int2R(60)), Int2R(5)),
         Int2R(90 * 5))

\* C9: every trial terminates: the Running loop executes exactly the
\* smallest integer not below the step budget of ticks, no tick runs once
\* the budget is reached, and then the session is closed and the trial is
\* finalized.
C9_ExactStepBudget ==
    /\ trial.phase = "running" =>
          /\ ticksRun = trial.num_steps
          /\ ticksRun <= RCeil(StepBudget)
          /\ haSim.open
          /\ LoopContinues(trial.num_steps, trial.max_steps)
                <=> ticksRun < RCeil(StepBudget)
          /\ AggregatorAction(trial.control_subsystem, Observed(haSim),
                              trial.des_alt, trial.des_hdg).raised = "none"
    /\ trial.phase = "finalized" =>
          /\ ticksRun = RCeil(StepBudget)
          /\ ticksRun = trial.num_steps
          /\ ~haSim.open
          /\ Len(harness.evals) = 1

C9_Witness ==
    /\ trial.phase = "finalized"
    /\ StepBudget[2] # 1
    /\ ticksRun = 480
    /\ trial.alt_change = RNeg(Int2R(33))

\* the aircraft is past the setpoint in the direction of the commanded change
PastSetpoint(change, value, desired) ==
    \/ RLess(RZero, change) /\ RLess(desired, value)
    \/ RLess(change, RZero) /\ RLess(value, desired)

IsTickStep ==
    trial.phase = "running" /\ trial'.phase = "running" /\ ticksRun' = ticksRun + 1

\* C10: "max alt overshoot" and "max hdg overshoot" grow only on ticks where
\* the aircraft has crossed past the setpoint in the direction of the
\* commanded change (so a monotonic approach that never crosses keeps them 0).
C10_OvershootOnlyPastSetpoint ==
    [][IsTickStep =>
        /\ RLess(trial.cur_eval.max_alt_overshoot, trial'.cur_eval.max_alt_overshoot)
              => PastSetpoint(trial.alt_change, haSim'.alt, trial.des_alt)
        /\ RLess(trial.cur_eval.max_hdg_overshoot, trial'.cur_eval.max_hdg_overshoot)
              => PastSetpoint(trial.hdg_change, haSim'.uhdg, trial.des_hdg)
      ]_vars

\* C11: for every finalized trial, each finalized "avg ... steady state
\* error" equals the sum of the per-tick errors recorded on the ticks
\* strictly after max_man_steps divided by the number of such ticks.
C11_SteadyStateIsMeanOfSteadyTicks ==
    (trial.phase = "finalized" /\ trial.ss_ticks > 0) =>
        /\ trial.cur_eval.avg_alt_steady_state_error =
               RDiv(trial.ss_alt_errors, Int2R(trial.ss_ticks))
        /\ trial.cur_eval.avg_hdg_steady_state_error =
               RDiv(trial.ss_hdg_errors, Int2R(trial.ss_ticks))

\* C13: the "time to first contact s" of a trial is k / control frequency,
\* k the index (from 0) of the first tick on which both axis errors are
\* below their tolerances; once such a tick has occurred no later tick
\* changes it, and it is 0 when there is no such tick.
C13_FirstContactTime ==
    trial.phase \in {"running", "finalized"} =>
        trial.cur_eval.time_to_first_contact_s =
            IF trial.first_contact = -1 THEN RZero
            ELSE RDiv(Int2R(trial.first_contact), Int2R(InteractionFreq))

\* the avg fields hold the plain sums of the ticks run so far
RunningSums(ev, n) ==
    /\ ev.avg_airspeed = RMul(Int2R(CruiseSpeedKts), Int2R(n))
    /\ ev.avg_load_factor = Int2R(n)
    /\ ev.avg_alt_steady_state_error = trial.ss_alt_errors
    /\ ev.avg_hdg_steady_state_error = trial.ss_hdg_errors

\* the avg fields hold the sums of the n ticks of the trial divided by n, once
DividedOnce(ev, n) ==
    /\ ev.avg_airspeed = Int2R(CruiseSpeedKts)
    /\ ev.avg_load_factor = ROne
    /\ ev.avg_alt_steady_state_error = RDiv(trial.ss_alt_errors, Int2R(n))
    /\ ev.avg_hdg_steady_state_error = RDiv(trial.ss_hdg_errors, Int2R(n))

SetupDone == trial.phase = "running" /\ trial.num_steps = 0

InBand(x, lo, hi) == RLeq(Int2R(lo), x) /\ RLeq(x, Int2R(hi))

\* C14: every draw stays inside the band of its case: CLB_G_500 in
\* [700, 3000], each descent case in the negated range of the matching climb
\* case, the hold cases 0, |hdg_change| of HDG_45_90 in [45, 90]; an
\* argument that is no member of the case enum raises at set-up, before any
\* tick.
C14_DrawsInsideBands ==
    /\ SetupDone =>
        /\ trial.alt_case \in AllAltCases /\ trial.hdg_case \in AllHdgCases
        /\ trial.alt_case = "ALT_HOLD" => trial.alt_change = RZero
        /\ trial.alt_case = "CLB_L_200" => InBand(trial.alt_change, 20, 200)
        /\ trial.alt_case = "CLB_200_500" => InBand(trial.alt_change, 250, 550)
        /\ trial.alt_case = "CLB_G_500" => InBand(trial.alt_change, 700, 3000)
        /\ trial.alt_case = "DSC_L_200" => InBand(RNeg(trial.alt_change), 20, 200)
        /\ trial.alt_case = "DSC_200_500" => InBand(RNeg(trial.alt_change), 250, 550)
        /\ trial.alt_case = "DSC_G_500" => InBand(RNeg(trial.alt_change), 700, 3000)
        /\ trial.hdg_case = "HDG_HOLD" => trial.hdg_change = RZero
        /\ trial.hdg_case = "HDG_45_90" => InBand(RAbs(trial.hdg_change), 45, 90)
    /\ (trial.phase = "raised" /\ (trial.alt_case \notin AllAltCases
                                    \/ trial.hdg_case \notin AllHdgCases)) =>
        /\ trial.raised = "AssertionError"
        /\ ticksRun = 0
        /\ ~haSim.open
    /\ (trial.phase # "idle" /\ (trial.alt_case \notin AllAltCases
                                  \/ trial.hdg_case \notin AllHdgCases)) =>
        trial.phase = "raised"

C14_Witness ==
    /\ SetupDone
    /\ trial.alt_case = "DSC_G_500"
    /\ trial.alt_change = RNeg(Int2R(1850))
    /\ trial.hdg_case = "HDG_45_90"
    /\ RLess(trial.hdg_change, RZero)

\* C18: run_single_eval called with a control subsystem whose action returns
\* something that is not a dict raises at set-up: no session is created, no
\* tick is executed and nothing is appended to the batch collections.
C18_NonDictRaisesAtSetup ==
    (trial.phase # "idle"
        /\ trial.control_subsystem.kind \in {"ReturnsList", "ReadsSimReturnsList"}) =>
        /\ trial.phase = "raised"
        /\ ~haSim.open
        /\ ticksRun = 0
        /\ harness.evals = <<>> /\ harness.cases = <<>>

\* sort_evals returned
SortReturned == batchResult.op = "sort_evals" /\ batchResult.raised = "none"

\* the key of the trial at place p of the returned list
KeyAt(p) == eval_sort_key(harness.evals[batchResult.indices[p] + 1], harness.aircraft)

\* C15: sort_evals returns a permutation of all trial indices, worst first:
\* the keys are non-increasing along the list (a trial in a larger rounded
\* steady-state bucket comes before one that differs only in that), and
\* trials whose raw values round to the same buckets are not ordered by
\* their raw values: they come in the reverse of their order in evals.
C15_SortWorstFirst ==
    SortReturned =>
        LET n == Len(harness.evals)
            idx == batchResult.indices
        IN  /\ Len(idx) = n
            /\ {idx[p] : p \in 1..n} = 0..(n - 1)
            /\ harness.sorted_indices = idx
            /\ \A p, q \in 1..n : p < q =>
                  /\ ~KeyLess(KeyAt(p), KeyAt(q))
                  /\ KeyAt(p) = KeyAt(q) => idx[p] > idx[q]
            /\ \A p \in 1..n : batchResult.criteria[p] = KeyAt(p)

\* two trials that differ only in the bucket, the later one (75 ft, on the
\* tie between 50 and 100, rounded to the even 100) listed first
C15_Witness ==
    /\ SortReturned
    /\ Len(harness.evals) = 2
    /\ batchResult.indices = <<1, 0>>
    /\ KeyAt(1)[2] = Int2R(100) /\ KeyAt(2)[2] = RZero
    /\ \A c \in {1, 3, 4, 5} : KeyAt(1)[c] = KeyAt(2)[c]
    /\ harness.evals[2].avg_alt_steady_state_error = Int2R(75)

\* a pair in the same buckets, the one with the larger raw error listed last
C15_TieWitness ==
    /\ SortReturned
    /\ Len(harness.evals) = 2
    /\ KeyAt(1) = KeyAt(2)
    /\ RLess(harness.evals[batchResult.indices[1] + 1].avg_alt_steady_state_error,
             harness.evals[batchResult.indices[2] + 1].avg_alt_steady_state_error)

\* C16: the "finished late" component of a trial's key is 1 exactly when its
\* time to first contact exceeds its maneuver budget in seconds plus the
\* 5-second buffer, and 0 otherwise.
C16_LateIsBudgetPlusBuffer ==
    SortReturned =>
        \A p \in 1..Len(batchResult.indices) :
            LET ev == harness.evals[batchResult.indices[p] + 1]
            IN  batchResult.criteria[p][4] =
                   BoolInt(RLess(RAdd(RMul(ev.max_man_time_mins, Int2R(60)), Int2R(5)),
                                 ev.time_to_first_contact_s))

\* create_batch_eval returned a batch evaluation
BatchReturned == batchResult.op = "create_batch_eval" /\ batchResult.raised = "none"

\* the listed trials, in the order of the index list
Listed == [p \in 1..Len(batchResult.indices) |-> harness.evals[batchResult.indices[p] + 1]]

RECURSIVE SumSeq(_)
SumSeq(q) == IF q = <<>> THEN RZero ELSE RAdd(Head(q), SumSeq(Tail(q)))

Mean(q) == RDiv(SumSeq(q), Int2R(Len(q)))

\* the largest entry of a non-empty sequence
MaxSeq(q) == CHOOSE m \in {q[p] : p \in 1..Len(q)} : \A p \in 1..Len(q) : RLeq(q[p], m)

BudgetSeconds(ev) == RMul(ev.max_man_time_mins, Int2R(60))

\* time to first contact over the budget, 2 when it was never reached
Fulfillment(ev) ==
    IF ev.time_to_first_contact_s = RZero THEN Int2R(2)
    ELSE RDiv(ev.time_to_first_contact_s, BudgetSeconds(ev))

\* the max fields, the mean fields and the empty-list error of the claim
BatchMaxAndMeans ==
    /\ BatchReturned =>
        LET b == batchResult.batch_evals
            ss == [p \in 1..Len(Listed) |-> Listed[p].avg_alt_steady_state_error]
        IN  /\ batchResult.indices # <<>>
            /\ b.max_alt_overshoot =
                  MaxSeq([p \in 1..Len(Listed) |-> Listed[p].max_alt_overshoot])
            /\ b.max_hdg_overshoot =
                  MaxSeq([p \in 1..Len(Listed) |-> Listed[p].max_hdg_overshoot])
            /\ b.max_alt_avg_steady_state_error = MaxSeq(ss)
            /\ b.avg_alt_steady_state_error = Mean(ss)
            /\ b.avg_max_alt_overshoot =
                  Mean([p \in 1..Len(Listed) |-> Listed[p].max_alt_overshoot])
            /\ b.avg_hdg_steady_state_error =
                  Mean([p \in 1..Len(Listed) |-> Listed[p].avg_hdg_steady_state_error])
            /\ b.mean_abs_alt_steady_state_error =
                  Mean([p \in 1..Len(Listed) |-> RAbs(RSub(ss[p], Mean(ss)))])
    /\ (batchResult.op = "create_batch_eval" /\ batchResult.indices = <<>>) =>
          batchResult.raised = "ZeroDivisionError"

\* C17 (as stated): "avg time fufillment" is the mean over the listed trials
\* of time to first contact / budget, a trial that never reached contact
\* counting 2; the max fields are the maxima and the other avg fields the
\* means over the listed trials; an empty list raises ZeroDivisionError.
\* (Stated where the quotient is defined: no listed trial has a contact time
\* and a budget of 0.)
C17_FulfillmentIsMeanRatio ==
    /\ BatchMaxAndMeans
    /\ (BatchReturned
         /\ \A p \in 1..Len(Listed) :
               Listed[p].time_to_first_contact_s = RZero
               \/ Listed[p].max_man_time_mins # RZero) =>
          batchResult.batch_evals.avg_time_fufillment =
              Mean([p \in 1..Len(Listed) |-> Fulfillment(Listed[p])])

\* C17 (amended): a listed trial whose maneuver budget is 0 contributes 0 to
\* "avg time fufillment" (it is left out of the sum but counted in the
\* divisor); every other listed trial contributes time to first contact /
\* budget, or 2 when contact was never reached.
C17_FulfillmentSkipsZeroBudget ==
    /\ BatchMaxAndMeans
    /\ BatchReturned =>
          batchResult.batch_evals.avg_time_fufillment =
              Mean([p \in 1..Len(Listed) |->
                      IF Listed[p].max_man_time_mins = RZero THEN RZero
                      ELSE Fulfillment(Listed[p])])

C17_Witness ==
    /\ BatchReturned
    /\ Len(batchResult.indices) = 2
    /\ Listed[1].max_man_time_mins = RZero
    /\ Listed[2].max_man_time_mins # RZero
    /\ Listed[2].time_to_first_contact_s = RZero
    /\ batchResult.batch_evals.avg_time_fufillment = ROne

\* ------------------------------------------------------------------------
\* C19: in SimulationInterface.step a trim failure raised while one property
\* of the command map is written is caught: step does not raise, every
\* property of the map whose write did not fail holds its command
\* afterwards, the engine has been advanced by
\* JSBSIM_DT_HZ // control_agent_interaction_freq integration steps, and
\* step returns an observation (the property values after the writes);
\* "Trim failed" is printed once for each failing write.
\* ------------------------------------------------------------------------
StepWithTrimFailure == stepResult.op = "step" /\ stepResult.failing # {}

C19_TrimFailureCaught ==
    StepWithTrimFailure =>
       /\ stepResult.raised = "none"
       /\ \A i \in 1..Len(stepResult.actions) :
             stepResult.actions[i][1] \notin stepResult.failing
                => iface.sim[stepResult.actions[i][1]] = stepResult.actions[i][2]
       /\ iface.runs = stepResult.runs_before
                         + (JSBSIM_DT_HZ \div iface.control_agent_interaction_freq)
       /\ DOMAIN stepResult.returned = StepProps
       /\ stepResult.returned = iface.sim
       /\ stepResult.printed = Cardinality(stepResult.failing)

\* the first write of the map fails, a later one changes its property, and
\* the interface runs 60 // 7 = 8 integration steps for one agent step
C19_Witness ==
    /\ StepWithTrimFailure
    /\ Len(stepResult.actions) >= 2
    /\ stepResult.actions[1][1] \in stepResult.failing
    /\ \E j \in 2..Len(stepResult.actions) :
          /\ stepResult.actions[j][1] \notin stepResult.failing
          /\ InitialSim[stepResult.actions[j][1]] # stepResult.actions[j][2]
          /\ iface.sim[stepResult.actions[j][1]] = stepResult.actions[j][2]
    /\ iface.control_agent_interaction_freq = 7
    /\ iface.runs = stepResult.runs_before + 8

\* ------------------------------------------------------------------------
\* C20: cessna_rpm_to_throttle_cmd against the reference interpolation
\* ------------------------------------------------------------------------
\* the reference: the table's piecewise-linear interpolant, clamped; the
\* interval of an rpm inside the table is the one it is in or starts
RefInterval(rpm) ==
    CHOOSE i \in 1..(Len(rpms) - 1) :
        RLeq(Int2R(rpms[i]), rpm) /\ RLess(rpm, Int2R(rpms[i + 1]))

RefThrottle(rpm) ==
    IF RLeq(rpm, Int2R(rpms[1])) THEN RZero
    ELSE IF RLeq(Int2R(rpms[Len(rpms)]), rpm) THEN ROne
    ELSE LET i == RefInterval(rpm)
         IN  RDiv(RAdd(Int2R((i - 1) * (rpms[i + 1] - rpms[i])),
                       RSub(rpm, Int2R(rpms[i]))),
                  Int2R(20 * (rpms[i + 1] - rpms[i])))

IsNumber(x) == Len(x) = 2

InUnitInterval(x) == IsNumber(x) /\ x[2] # 0 /\ RLeq(RZero, x) /\ RLeq(x, ROne)

\* what the claim says of one call
ThrottleAsReference(c) ==
    /\ InUnitInterval(c.returned)
    /\ FLess(c.rpm, Int2R(rpms[1])) => c.returned = RZero
    /\ FLess(Int2R(rpms[Len(rpms)]), c.rpm) => c.returned = ROne
    /\ \A i \in 1..Len(rpms) : c.rpm = Int2R(rpms[i]) => c.returned = throttle_cmds[i]
    /\ c.rpm[2] # 0 => c.returned = RefThrottle(c.rpm)

\* what it says of two calls
ThrottleMonotonic(c1, c2) ==
    FLeq(c1.rpm, c2.rpm) => RLeq(c1.returned, c2.returned)

\* C20 (as stated): for every numeric rpm the function returns a number in
\* [0, 1], never no value: 0 below 896, 1 above 2845, the tabulated throttle
\* at a tabulated RPM, the reference interpolation in between, and a
\* non-decreasing value as rpm grows.
C20_ThrottleTotalOnNumbers ==
    /\ \A k \in 1..Len(throttleCalls) : ThrottleAsReference(throttleCalls[k])
    /\ \A k1, k2 \in 1..Len(throttleCalls) :
          ThrottleMonotonic(throttleCalls[k1], throttleCalls[k2])

\* C20 (amended): the same for every rpm that is not nan; for nan, whose
\* comparisons are all False, the function returns None.
C20_ThrottleTotalExceptNaN ==
    /\ \A k \in 1..Len(throttleCalls) :
          IF IsNaN(throttleCalls[k].rpm)
          THEN throttleCalls[k].returned = NoOut
          ELSE ThrottleAsReference(throttleCalls[k])
    /\ \A k1, k2 \in 1..Len(throttleCalls) :
          ThrottleMonotonic(throttleCalls[k1], throttleCalls[k2])

\* an interpolated value strictly inside an interval, then a tabulated RPM
\* that ends an interval (found by the loop in the interval before it)
C20_Witness ==
    /\ Len(throttleCalls) = 2
    /\ throttleCalls[1].rpm = Rat(rpms[2] + rpms[3], 2)
    /\ throttleCalls[1].returned = Rat(3, 40)
    /\ throttleCalls[2].rpm = Int2R(rpms[3])
    /\ throttleCalls[2].returned = throttle_cmds[3]

\* the call on nan
C20_NaNWitness ==
    \E k \in 1..Len(throttleCalls) :
        IsNaN(throttleCalls[k].rpm) /\ throttleCalls[k].returned = NoOut

\* ------------------------------------------------------------------------
\* C21: an unrecognised manual command name is a no-op: the command map
\* that action returns when the manual section holds an unrecognised name
\* equals the map for the same instruction and simulator state without
\* that entry (no key added, no value changed), and the tick does not fail.
\* ------------------------------------------------------------------------
RecognisedManual == {"throttle", "mixture"}

Restrict(d, keys) == [k \in DOMAIN d \cap keys |-> d[k]]

HasUnrecognisedManual(instruction) ==
    /\ HasKey(instruction, "manual")
    /\ DOMAIN instruction["manual"] \ RecognisedManual # {}

\* the map of the same tick for the instruction without the unrecognised entries
ActionsWithoutUnrecognised ==
    LET ci == current_instruction["control interface"]
        level == StraightAndLevelAction(
                     IF HasKey(ci, "wings level") THEN ci["wings level"] ELSE RZero)
    IN  MergeActions(ciResult.ha, level,
                     ManualOverrides(Restrict(current_instruction["manual"],
                                              RecognisedManual)))

C21_UnrecognisedManualIsNoOp ==
    (ciResult.op = "action" /\ HasUnrecognisedManual(current_instruction))
       => /\ ciResult.raised = "none"
          /\ ciResult.actions = ActionsWithoutUnrecognised

\* ------------------------------------------------------------------------
\* C22: every aggregator that drives the heading-hold subsystem rejects a
\* desired heading outside [0, 360] with an assertion failure and emits no
\* command map for it, for headings above 360 and for negative headings.
\* ------------------------------------------------------------------------
HeadingAggregators == {"HAPID", "FGAP", "PORaw", "PODiff"}

HeadingOutOfRange(h) == RLess(h, RZero) \/ RLess(Int2R(360), h)

C22_HeadingOutsideRangeRejected ==
    (/\ aggResult.op = "action"
     /\ agg.kind \in HeadingAggregators
     /\ HeadingOutOfRange(aggResult.des_hdg))
       => (aggResult.raised = "AssertionError" /\ aggResult.actions = EmptyMap)

\* ------------------------------------------------------------------------
\* C23: deep-copying a SimulationInterface forks an independent session:
\* the copy has a fresh engine session of its own, the copy operation
\* changes nothing of the original, and a later property write or step on
\* the original leaves every property of the copy unchanged, and vice versa.
\* ------------------------------------------------------------------------
C23_CopyIsIndependent ==
    [][/\ copyOp'.op = "deepcopy"
            => /\ copied'.sim \notin 1..Len(heap)
               /\ copied'.sim # original.sim
               /\ heap'[copied'.sim].time = 0
               /\ heap'[original.sim] = heap[original.sim]
               /\ original' = original
       /\ (copyOp'.op \in {"write", "step"} /\ copied.sim # 0 /\ copyOp'.on = "original")
            => /\ heap'[copied.sim] = heap[copied.sim]
               /\ copied' = copied
       /\ (copyOp'.op \in {"write", "step"} /\ copied.sim # 0 /\ copyOp'.on = "copied")
            => /\ heap'[original.sim] = heap[original.sim]
               /\ original' = original]_vars

\* the independence test of ugly_visualization_example.py: the original's
\* altitude is written after the copy was made, and the copy keeps its own
C23_Witness ==
    /\ copied.sim # 0
    /\ copyOp.op = "write"
    /\ copyOp.on = "original"
    /\ heap[original.sim].props["altitude_sl_ft"] = Int2R(10000)
    /\ heap[copied.sim].props["altitude_sl_ft"] # Int2R(10000)

\* ------------------------------------------------------------------------
\* C26: each initial condition of the copy (altitude, latitude/longitude,
\* u, v, w, p, q and r, heading, pitch, roll, flight-path angle, calibrated
\* airspeed, angle of attack, sideslip) equals the source session's current
\* value of the corresponding property at the moment of copying.
\* ------------------------------------------------------------------------
\* initial condition, the property whose current value it is to carry
ClaimedICS ==
    {<<"initial_altitude_msl_ft", "altitude_sl_ft", "same">>,
     <<"initial_longitude_geoc_deg", "lng_geoc_deg", "same">>,
     <<"initial_latitude_geod_deg", "lat_geod_deg", "same">>,
     <<"initial_u_fps", "u_fps", "same">>,
     <<"initial_v_fps", "v_fps", "same">>,
     <<"initial_w_fps", "w_fps", "same">>,
     <<"initial_p_radps", "p_radps", "same">>,
     <<"initial_q_radps", "q_radps", "same">>,
     <<"initial_r_radps", "r_radps", "same">>,
     <<"initial_heading_deg", "heading_deg", "same">>,
     <<"initial_pitch_deg", "pitch_rad", "rad_to_deg">>,
     <<"initial_roll_deg", "roll_rad", "rad_to_deg">>,
     <<"initial_flight_path", "flight_path", "same">>,
     <<"ic/vc-kts", "cas_kts", "same">>,
     <<"ic/alpha-deg", "angle_of_attack", "same">>,
     <<"ic/beta-deg", "sideslip_deg", "same">>}

CarriesCurrentValue(t) ==
    copied.init_conditions[t[1]] = Converted(heap[original.sim].props[t[2]], t[3])

C26_CopyStartsFromCurrentState ==
    copyOp.op = "deepcopy" => \A t \in ClaimedICS : CarriesCurrentValue(t)

\* ------------------------------------------------------------------------
\* C24: FlightPathPIDSubsystem.action holds the elevator command at 0 on
\* every tick while no trim baseline has been established (_last_trim_fpa
\* still has its initial value), and emits the negated PID output clipped
\* to [-0.5, 0.5] only after a trim baseline exists.
\* ------------------------------------------------------------------------
NotYetTrimmed(sub) == sub.last_trim_fpa = FlightPathPIDSubsystem.last_trim_fpa

FlightPathReturned ==
    /\ aggResult.op = "action"
    /\ aggResult.raised = "none"
    /\ agg.kind = "RPPID"

C24_ElevatorHeldUntilTrimmed ==
    (FlightPathReturned /\ NotYetTrimmed(agg.pitch_subsystem))
       => aggResult.actions["elevator_cmd"] = RZero

\* ------------------------------------------------------------------------
\* C25: the first AltitudePIDSubsystem.action call of an instance and the
\* dt of the later ones
\* ------------------------------------------------------------------------
AltitudePIDReturned ==
    /\ aggResult.op = "action"
    /\ aggResult.raised = "none"
    /\ agg.kind = "HAPID"

FirstAltitudeCall == AltitudePIDReturned /\ agg.altitude_subsystem.calls = 1

LaterAltitudeCall == AltitudePIDReturned /\ agg.altitude_subsystem.calls > 1

PIDStateUnchanged ==
    agg.altitude_subsystem.alt_hold_pid = AltitudePIDSubsystem.alt_hold_pid

DtIsElapsedTime ==
    agg.altitude_subsystem.dt = RSub(aggSim.time, agg.altitude_subsystem.prev_time)

\* C25 (as stated): on the first call the PID is skipped: compute is not
\* invoked, the PID state is unchanged and the elevator command emitted is
\* 0, regardless of the altitude error; on later calls dt is the simulator
\* time elapsed since the previous call.
C25_FirstCallSkipsPID ==
    /\ FirstAltitudeCall
         => /\ ~agg.altitude_subsystem.computed
            /\ PIDStateUnchanged
            /\ aggResult.actions["elevator_cmd"] = RZero
    /\ LaterAltitudeCall => DtIsElapsedTime

\* C25 (amended): on the first call dt is 0; compute is invoked with that
\* dt exactly when the altitude error is below 100 ft, which leaves the PID
\* state as it was, and the elevator command emitted is 0; on later calls
\* dt is the simulator time elapsed since the previous call.
C25_FirstCallHasZeroDt ==
    /\ FirstAltitudeCall
         => /\ agg.altitude_subsystem.dt = RZero
            /\ agg.altitude_subsystem.computed
                  <=> RLess(RAbs(RSub(aggResult.des1, aggSim.alt)), Int2R(100))
            /\ PIDStateUnchanged
            /\ aggResult.actions["elevator_cmd"] = RZero
    /\ LaterAltitudeCall => DtIsElapsedTime

\* a first call within 100 ft of the desired altitude, which runs compute
C25_Witness ==
    /\ FirstAltitudeCall
    /\ agg.altitude_subsystem.computed
    /\ aggResult.des1 # aggSim.alt

\* a later call made one control period after the previous one
C25_LaterWitness ==
    /\ LaterAltitudeCall
    /\ agg.altitude_subsystem.dt = Rat(1, ControlFreq)

\* ------------------------------------------------------------------------
\* C27: over a scenario run the agent sends at most MAX_CALLS requests to
\* the model provider: once MAX_CALLS decisions have been requested a
\* further get_decision returns False without issuing another request, and
\* the loop stops on that False without installing a new instruction.
\* ------------------------------------------------------------------------
StoppedOnFalse ==
    /\ scenario.phase = "stopped"
    /\ scenario.decisions[Len(scenario.decisions)] = NoDecision

C27_AtMostMaxCallsRequests ==
    /\ adm.requests <= MAX_CALLS
    /\ \A i \in 1..Len(scenario.installed) : scenario.installed[i] # NoDecision
    /\ adm.num_calls > MAX_CALLS => StoppedOnFalse

\* ------------------------------------------------------------------------
\* C28: after any sequence of set_instruction and action calls the
\* instruction history holds the instructions in the order they were set,
\* each exactly once (its length is the number of set_instruction calls),
\* and the evaluation history holds one record per superseded instruction.
\* ------------------------------------------------------------------------
\* stated for each call that returns: it adds the instruction it sets once
\* to the history, and one record to the evaluation history when it
\* supersedes an instruction
SetInstructionReturns ==
    /\ ciResult'.op = "set_instruction"
    /\ ciResult'.raised = "none"
    /\ nSets' = nSets + 1

C28_HistoryOncePerInstruction ==
    [][SetInstructionReturns
         => /\ instructions' = Append(instructions, current_instruction')
            /\ Len(evals') = Len(evals) + (IF current_instruction # NoInstruction
                                           THEN 1 ELSE 0)]_vars

\* ------------------------------------------------------------------------
\* C29: in batch_test of every harness each trial starts with the control
\* subsystem in its freshly constructed state, however many trials ran
\* before it, so the first tick of every trial emits the one-shot trim
\* command; the caller's object carries no state from trial to trial.
\* ------------------------------------------------------------------------
\* the aggregators that send the trim command on their first tick (the
\* autopilot aggregator FGAP has none)
HasOneShotTrim(kind) == kind # "FGAP"

C29_EveryTrialStartsFresh ==
    /\ (bt.phase = "trial" /\ bt.ticks = 0)
          => bt.driven = FreshSubsystem(bt.driven.kind)
    /\ (bt.phase = "trial" /\ bt.ticks >= 1 /\ HasOneShotTrim(bt.driven.kind))
          => HasKey(bt.first_actions, TrimKey)
    /\ (bt.phase = "between" /\ bt.trial > 0)
          => bt.caller = FreshSubsystem(bt.caller.kind)

\* ------------------------------------------------------------------------
\* C30: in sort_evals a trial that never reached first contact (time to
\* first contact still 0) with a non-zero maneuver budget is not treated as
\* on time: the lateness component of its sort key is 1, so on that
\* criterion it never ranks better than a trial that reached contact late.
\* ------------------------------------------------------------------------
SortEvalsReturned ==
    batchResult.op = "sort_evals" /\ batchResult.raised = "none"

NeverReached(eval) ==
    /\ eval.time_to_first_contact_s = RZero
    /\ eval.max_man_time_mins # RZero

\* the eval at position p of the order sort_evals returned
SortedEval(p) == harness.evals[batchResult.indices[p] + 1]

LatenessOf(p) == batchResult.criteria[p][4]

C30_NeverReachedCountsAsLate ==
    SortEvalsReturned =>
        \A p \in 1..Len(batchResult.indices) :
            NeverReached(SortedEval(p)) =>
                /\ LatenessOf(p) = ROne
                /\ \A q \in 1..Len(batchResult.indices) :
                       late_contact(SortedEval(q)) => RLeq(LatenessOf(q), LatenessOf(p))

====
